---- MODULE Spec2Model ----
(***************************************************************************)
(* Adapter evaluation and reflective-feedback generation of the GEPA       *)
(* standalone adapters (classifier, extractor, SQL, RAG) and the retry     *)
(* wrapper around the chat-completion transport.                           *)
(*                                                                         *)
(* Text is a sequence of one-character strings.  A Python dict is a        *)
(* function from its keys; Optional[x] is the empty sequence (None) or the *)
(* one-element sequence <<x>>.  A float is a reduced fraction              *)
(* [num, den]; den = 0 stands for the non-finite values float() accepts    *)
(* ("nan").                                                                *)
(***************************************************************************)
EXTENDS Integers, Sequences, FiniteSets, TLC

(* ---------------------------- bounds ----------------------------------- *)
MaxBatch == 2
MaxRetries == 3

(* ------------------------- Python helpers ------------------------------ *)
None == <<>>
Some(x) == <<x>>
IsNone(o) == o = <<>>

\* dict.get(key, default)
Get(d, k, default) == IF k \in DOMAIN d THEN d[k] ELSE default

\* str.lower() on one element of a text: a character or a word
LowerChar(c) ==
    CASE c = "A" -> "a"
      [] c = "B" -> "b"
      [] c = "J" -> "j"
      [] c = "N" -> "n"
      [] c = "S" -> "s"
      [] c \in {"Azure/", "AZURE/"} -> "azure/"
      [] c \in {"OpenAI/"} -> "openai/"
      [] c \in {"GPT-4o", "GPT-4O"} -> "gpt-4o"
      [] OTHER -> c

\* str.lower()
Lower(s) == [i \in 1..Len(s) |-> LowerChar(s[i])]

\* the characters str.strip() and the regex class \s treat as whitespace
IsSpace(c) == c \in {" ", "\t", "\n"}

RECURSIVE LStrip(_)
LStrip(s) == IF s # <<>> /\ IsSpace(Head(s)) THEN LStrip(Tail(s)) ELSE s

RECURSIVE RStrip(_)
RStrip(s) ==
    IF s # <<>> /\ IsSpace(s[Len(s)]) THEN RStrip(SubSeq(s, 1, Len(s) - 1)) ELSE s

\* str.strip()
Strip(s) == RStrip(LStrip(s))

RECURSIVE Gcd(_, _)
Gcd(a, b) == IF b = 0 THEN a ELSE Gcd(b, a % b)

\* the float k / n, n > 0, k >= 0
Frac(k, n) == LET g == Gcd(k, n) IN [num |-> k \div g, den |-> n \div g]

Zero == [num |-> 0, den |-> 1]
One == [num |-> 1, den |-> 1]
NaN == [num |-> 0, den |-> 0]

\* score < 1.0 and score == 1.0 (both false for nan)
LessThanOne(s) == s.den > 0 /\ s.num < s.den
EqualsOne(s) == s.den > 0 /\ s.num = s.den


(* ------------------- JSON text of a task-model reply ------------------- *)
\* A reply is a sequence of lexical tokens: braces, brackets, a
\* key/value member, a scalar literal, or prose that is not JSON.
LBrace == [tok |-> "{"]
RBrace == [tok |-> "}"]
LBracket == [tok |-> "["]
RBracket == [tok |-> "]"]
Prose == [tok |-> "prose"]
Pair(k, v) == [tok |-> "pair", k |-> k, v |-> v]
Lit(v) == [tok |-> "lit", v |-> v]

\* Python values held in a field
StrVal(s) == [t |-> "str", s |-> s]
NumVal(n) == [t |-> "num", n |-> n]
NullVal == [t |-> "null"]
ObjVal(m) == [t |-> "obj", m |-> m]
ListVal(items) == [t |-> "list", items |-> items]
EmptyDict == ObjVal(<<>>)

Digits == <<"0", "1", "2", "3", "4", "5", "6", "7", "8", "9">>

\* str(value)
PyStr(v) ==
    CASE v.t = "str" -> v.s
      [] v.t = "num" -> <<Digits[v.n + 1]>>
      [] v.t = "null" -> <<"N", "o", "n", "e">>

\* the dict built from the members toks[lo..hi]; a repeated key keeps its last value
MembersToDict(toks, lo, hi) ==
    LET keys == {toks[i].k : i \in lo..hi}
        last(k) == CHOOSE i \in lo..hi :
                      /\ toks[i].k = k
                      /\ \A j \in lo..hi : toks[j].k = k => j <= i
    IN [k \in keys |-> toks[last(k)].v]

\* json.loads: Some(value), or None for json.JSONDecodeError
JsonLoads(toks) ==
    LET n == Len(toks) IN
    IF n = 1 /\ toks[1].tok = "lit" THEN Some(toks[1].v)
    ELSE IF /\ n >= 2 /\ toks[1] = LBrace /\ toks[n] = RBrace
            /\ \A i \in 2..(n - 1) : toks[i].tok = "pair"
         THEN Some(ObjVal(MembersToDict(toks, 2, n - 1)))
    ELSE IF /\ n >= 2 /\ toks[1] = LBracket /\ toks[n] = RBracket
            /\ \A i \in 2..(n - 1) : toks[i].tok = "lit"
         THEN Some(ListVal([i \in 1..(n - 2) |-> toks[i + 1].v]))
    ELSE None

\* the loop of _extract_json_from_text from position i with brace depth count
RECURSIVE ScanBraces(_, _, _, _)
ScanBraces(text, start, i, count) ==
    IF i > Len(text) THEN EmptyDict
    ELSE IF text[i] = LBrace THEN ScanBraces(text, start, i + 1, count + 1)
    ELSE IF text[i] = RBrace THEN
        IF count - 1 = 0 /\ ~IsNone(JsonLoads(SubSeq(text, start, i)))
        THEN JsonLoads(SubSeq(text, start, i))[1]
        ELSE ScanBraces(text, start, i + 1, count - 1)
    ELSE ScanBraces(text, start, i + 1, count)

\* SimpleExtractorAdapter._extract_json_from_text
ExtractJsonFromText(text) ==
    IF \A i \in 1..Len(text) : text[i] # LBrace THEN EmptyDict
    ELSE LET start == CHOOSE i \in 1..Len(text) :
                          text[i] = LBrace /\ \A j \in 1..(i - 1) : text[j] # LBrace
         IN ScanBraces(text, start, start, 0)

\* the parse step of SimpleExtractorAdapter.evaluate
ParseExtraction(extracted_text) ==
    IF IsNone(JsonLoads(extracted_text))
    THEN ExtractJsonFromText(extracted_text)
    ELSE JsonLoads(extracted_text)[1]

\* mutant: the membership test of the field is left out
FieldIsCorrectIgnoringPresence(extracted_fields, field_name, expected_value) ==
    Lower(Strip(PyStr(Get(extracted_fields.m, field_name, StrVal(<<>>)))))
        = Lower(Strip(PyStr(expected_value)))

\* the per-field comparison of SimpleExtractorAdapter.evaluate; extracted_fields is a dict
FieldIsCorrect(extracted_fields, field_name, expected_value) ==
    LET extracted_val == Lower(Strip(PyStr(Get(extracted_fields.m, field_name, StrVal(<<>>)))))
        expected_val == Lower(Strip(PyStr(expected_value)))
    IN (extracted_val = expected_val) /\ (field_name \in DOMAIN extracted_fields.m)

FieldComparisons(extracted_fields, expected_fields) ==
    [f \in DOMAIN expected_fields |->
        [expected |-> expected_fields[f],
         extracted |-> Get(extracted_fields.m, f, NullVal),
         correct |-> FieldIsCorrect(extracted_fields, f, expected_fields[f])]]

ExtractorScore(field_comparisons) ==
    LET total_fields == Cardinality(DOMAIN field_comparisons)
        correct_fields == Cardinality({f \in DOMAIN field_comparisons : field_comparisons[f].correct})
    IN IF total_fields > 0 THEN Frac(correct_fields, total_fields) ELSE Zero

(* ------------------------------ SQL ------------------------------------ *)
\* the Markdown code-fence markers (three backquotes, with or without sql),
\* each held as one element of the text
FenceSql == "<fence-sql>"
Fence == "<fence>"

\* re.sub of the fence markers by the empty string
RemoveFences(s) == SelectSeq(s, LAMBDA c : c \notin {FenceSql, Fence})

RECURSIVE RStripSemicolon(_)
RStripSemicolon(s) ==
    IF s # <<>> /\ s[Len(s)] = ";" THEN RStripSemicolon(SubSeq(s, 1, Len(s) - 1)) ELSE s

\* re.sub(r'\s+', ' ', s)
RECURSIVE CollapseWhitespace(_)
CollapseWhitespace(s) ==
    IF s = <<>> THEN <<>>
    ELSE IF IsSpace(Head(s)) THEN <<" ">> \o CollapseWhitespace(LStrip(s))
    ELSE <<Head(s)>> \o CollapseWhitespace(Tail(s))

NormalizeSql(s) == CollapseWhitespace(RStripSemicolon(Lower(Strip(s))))

\* SimpleSQLAdapter._compare_sql
CompareSql(sql1, sql2) == NormalizeSql(sql1) = NormalizeSql(sql2)

(* --------------------------- classifier -------------------------------- *)
\* SimpleClassifierAdapter._get_label_key
GetLabelKey(example) ==
    IF "urgency" \in DOMAIN example THEN "urgency"
    ELSE IF "label" \in DOMAIN example THEN "label"
    ELSE IF "class" \in DOMAIN example THEN "class"
    ELSE IF "sentiment" \in DOMAIN example THEN "sentiment"
    ELSE "label"

(* ------------------------------ RAG ------------------------------------ *)
\* the default max_retries of _call_llm_with_retry
DefaultMaxRetries == 2

\* mutant: only the content_filter marker is recognised
IsModerationContentFilterOnly(error_str) ==
    \E i \in 1..Len(error_str) : error_str[i] = "content_filter"

\* mutant: every exception is taken for a moderation rejection
IsModerationAnyError(error_str) == error_str = error_str

\* the moderation test of _call_llm_with_retry on str(e)
IsModeration(error_str) ==
    \E i \in 1..Len(error_str) : error_str[i] \in {"content_filter", "jailbreak"}

\* str.upper() on the leading word of a judge line
UpperWord(w) ==
    CASE w \in {"PUNTAJE:", "Puntaje:", "puntaje:"} -> "PUNTAJE:"
      [] w \in {"SCORE:", "Score:", "score:"} -> "SCORE:"
      [] w \in {"RAZON:", "Razon:", "razon:"} -> "RAZON:"
      [] w \in {"REASON:", "Reason:", "reason:"} -> "REASON:"
      [] OTHER -> w

\* float(s): Some(value), or None for ValueError
FloatOf(s) ==
    IF Len(s) # 1 THEN None
    ELSE CASE s[1] = "1.0" -> Some(One)
           [] s[1] = "0.75" -> Some(Frac(3, 4))
           [] s[1] = "0.0" -> Some(Zero)
           [] s[1] = "1.5" -> Some([num |-> 3, den |-> 2])
           [] s[1] = "-0.5" -> Some([num |-> -1, den |-> 2])
           [] s[1] = "nan" -> Some(NaN)
           [] OTHER -> None

\* content.split('\n')
RECURSIVE SplitLines(_)
SplitLines(s) ==
    IF \A i \in 1..Len(s) : s[i] # "\n" THEN <<s>>
    ELSE LET k == CHOOSE i \in 1..Len(s) : s[i] = "\n" /\ \A j \in 1..(i - 1) : s[j] # "\n"
         IN <<SubSeq(s, 1, k - 1)>> \o SplitLines(SubSeq(s, k + 1, Len(s)))

StartsWith(line, words) == line # <<>> /\ UpperWord(line[1]) \in words

\* the words carrying a colon; a leading keyword ends with its colon
HasColon(w) == UpperWord(w) \in {"PUNTAJE:", "SCORE:", "RAZON:", "REASON:", ":"}

\* line.split(":")[1] of a line whose first word ends with the first colon
RECURSIVE UpToColon(_)
UpToColon(s) ==
    IF s = <<>> \/ HasColon(Head(s)) THEN <<>> ELSE <<Head(s)>> \o UpToColon(Tail(s))

\* the line loop of _evaluate_with_judge
RECURSIVE ParseJudgeLines(_, _, _)
ParseJudgeLines(lines, score, reason) ==
    IF lines = <<>> THEN [score |-> score, feedback |-> reason]
    ELSE LET line == Head(lines)
             parsed == FloatOf(Strip(UpToColon(Tail(line))))
             score2 == IF StartsWith(line, {"PUNTAJE:", "SCORE:"}) /\ ~IsNone(parsed)
                       THEN parsed[1] ELSE score
             reason2 == IF StartsWith(line, {"RAZON:", "REASON:"})
                        THEN Strip(Tail(line)) ELSE reason
         IN ParseJudgeLines(Tail(lines), score2, reason2)

\* _evaluate_with_judge given the outcome of its _call_llm_with_retry call
EvaluateWithJudge(result) ==
    IF result.kind = "raise"
    THEN [score |-> Zero, feedback |-> <<"Error del Juez: ">> \o result.msg]
    ELSE IF IsNone(result.content)
    THEN [score |-> Zero, feedback |-> <<"Juez bloqueado por content filter">>]
    ELSE LET content == Strip(result.content[1])
         IN ParseJudgeLines(SplitLines(content), Zero, content)

(* ------------------------- inputs of the model ------------------------- *)
\* the longest run of plain characters a text of the model holds
MaxRun == 1600

\* Runs[n]: one element standing for n consecutive characters that are neither
\* white space nor part of a word the code searches for
Runs == [n \in 1..MaxRun |-> "x*" \o ToString(n)]

Adapters == {"classifier", "extractor", "sql", "rag"}
DroppingAdapters == {"classifier", "extractor", "sql"}

Candidates == {[system_prompt |-> <<"p">>]}

ClassifierExamples ==
    { [text |-> <<"h", "i">>, label |-> <<"a">>],
      [text |-> <<"y", "o">>, urgency |-> <<"B">>, label |-> <<"a">>] }

ExtractorExamples ==
    { [text |-> <<"c", "v">>, extracted |-> [name |-> StrVal(<<"J">>), age |-> StrVal(<<>>)]],
      [text |-> <<"c">>] }

SqlExamples ==
    { [question |-> <<"q">>,
       extracted |-> [schema |-> <<"t">>, expected_sql |-> <<"S", " ", "1", ";">>]],
      [question |-> <<"r">>] }

RagExamples ==
    { [question |-> <<"q">>, context |-> <<"c", Runs[1600]>>, answer |-> <<"a">>],
      [question |-> <<"r">>, context |-> <<>>, answer |-> <<"b">>] }

Examples(a) ==
    CASE a = "classifier" -> ClassifierExamples
      [] a = "extractor" -> ExtractorExamples
      [] a = "sql" -> SqlExamples
      [] a = "rag" -> RagExamples

RECURSIVE SeqsUpTo(_, _)
SeqsUpTo(S, n) ==
    IF n = 0 THEN {<<>>}
    ELSE LET shorter == SeqsUpTo(S, n - 1)
         IN shorter \cup {Append(b, e) : b \in {x \in shorter : Len(x) = n - 1}, e \in S}

\* the batches evaluate() is called with: every sequence of at most MaxBatch
\* examples for the Classifier, Extractor and SQL adapters; for RAG, whose loop
\* makes up to four transport calls per example, the sequences that alternate
\* between the two examples
Batches(a) ==
    IF a = "rag"
    THEN {[i \in 1..n |-> IF i % 2 = 1 THEN p[1] ELSE p[2]] :
             n \in 0..MaxBatch, p \in {q \in RagExamples \X RagExamples : q[1] # q[2]}}
    ELSE SeqsUpTo(Examples(a), MaxBatch)

\* replies of the task model
ClassifierReplies == { <<"A">>, <<"b">>, <<"a", " ">> }

ExtractorReplies ==
    { <<LBrace, Pair("name", StrVal(<<"j">>)), Pair("age", StrVal(<<>>)), RBrace>>,
      <<LBrace, Pair("name", StrVal(<<" ", "J", " ">>)), RBrace>>,
      <<Prose, LBrace, Pair("age", NumVal(3)), Pair("name", NullVal), RBrace, Prose>>,
      <<Prose>>,
      <<LBrace, Prose, RBrace, LBrace, Pair("name", StrVal(<<"j">>)), RBrace>>,
      <<LBrace, LBrace, Pair("name", StrVal(<<"j">>)), RBrace, RBrace>>,
      <<LBracket, Lit(StrVal(<<"j">>)), RBracket>>,
      <<Lit(StrVal(<<"j">>))>>,
      <<Lit(NumVal(3))>> }

SqlReplies ==
    { <<FenceSql, "\n", "s", " ", " ", "1", "\n", Fence>>,
      <<"s", " ", "2">>,
      <<"s", " ", "1", " ", ";">> }

RagReplies == { <<" ", "g", "\n">> }

JudgeReplies ==
    { <<"PUNTAJE:", " ", "1.0", "\n", "RAZON:", " ", "o", "k">>,
      <<"score:", "0.75", "\n", "reason:", "m", Runs[600]>>,
      <<"PUNTAJE:", " ", "1.0", "\n", "RAZON:", " ", Runs[490]>>,
      <<"PUNTAJE:", " ", "x", "\n", "w">>,
      <<"Puntaje:", "1.5", "\n", " ", "SCORE:", "0.0">> }

Replies(a) ==
    CASE a = "classifier" -> ClassifierReplies
      [] a = "extractor" -> ExtractorReplies
      [] a = "sql" -> SqlReplies
      [] a = "rag" -> RagReplies

\* messages of the exceptions the transport raises
ModerationErrors == { <<"content_filter", " ", "error">>, <<"jailbreak", " ", "detected">> }
OtherErrors == { <<"API", " ", "Error">> }

Returned(content) == [kind |-> "return", content |-> content]
Raised(msg) == [kind |-> "raise", msg |-> msg]


\* what a transport call made for `caller` can do: reply with text or raise
TransportOutcomes(a, caller) ==
    CASE caller = "task" ->
             {Returned(Some(r)) : r \in Replies(a)} \cup {Raised(m) : m \in OtherErrors}
      [] caller = "gen" ->
             {Returned(Some(r)) : r \in RagReplies}
               \cup {Raised(<<"content_filter", " ", "error">>)} \cup {Raised(m) : m \in OtherErrors}
      [] caller = "judge" ->
             {Returned(Some(r)) : r \in JudgeReplies}
               \cup {Raised(<<"content_filter", " ", "error">>)} \cup {Raised(m) : m \in OtherErrors}
      [] caller = "direct" ->
             {Returned(Some(r)) : r \in RagReplies}
               \cup {Raised(m) : m \in ModerationErrors \cup OtherErrors}

(* ------------------------------ state ---------------------------------- *)
VARIABLES
    adapter,                \* which adapter class was constructed
    max_positive_examples,  \* self.max_positive_examples
    pc,                     \* idle, loop, retry, retry_done, called, returned, raised, reflected
    batch, candidate, capture_traces,   \* arguments of the running evaluate()
    idx,                    \* 1-based position of the next example of the loop
    outputs, scores, trajectories,      \* the three lists of evaluate()
    generated_answer,       \* local of SimpleRAGAdapter.evaluate between its two calls
    retry,                  \* frame of the running _call_llm_with_retry
    reflective_datasets,    \* result of the last make_reflective_dataset()
    origin,                 \* history: batch position each entry of outputs came from
    trace,                  \* history: transport calls and sleeps of the running call
    reflective_src,         \* history: zip position and branch each record came from
    analysis,               \* frame of the last call into shared/analysis
    csv_file,               \* the ledger file at csv_path: None, or its lines
    loggers,                \* per process: position in the logger code and call counts
    appended,               \* history: the rows append_row wrote, in call order
    csv_start               \* history: the ledger file before the first logger

\* the variables of the ledger
ledger_vars == <<csv_file, loggers, appended, csv_start>>

vars == <<ledger_vars, analysis, adapter, max_positive_examples, pc, batch, candidate, capture_traces, idx,
          outputs, scores, trajectories, generated_answer, retry,
          reflective_datasets, origin, trace, reflective_src>>

\* Config defaults read by the constructors
EXTRACTOR_MAX_POSITIVE_EXAMPLES == 0
RAG_MAX_POSITIVE_EXAMPLES == 2

\* the max_positive_examples argument of the constructors (None: not given)
MaxPositiveArgs == {None, Some(1)}

\* SimpleExtractorAdapter.__init__ / SimpleRAGAdapter.__init__
InitMaxPositive(a, arg) ==
    IF ~IsNone(arg) THEN arg[1]
    ELSE IF a = "extractor" THEN EXTRACTOR_MAX_POSITIVE_EXAMPLES
    ELSE RAG_MAX_POSITIVE_EXAMPLES

NoRetry == [max_retries |-> 0, attempt |-> 0, caller |-> "none", result |-> Returned(None)]

\* no function of shared/analysis was called yet
NoCall == [fn |-> "none", args |-> <<>>, result |-> <<>>, seq |-> 0]

\* the adapter after construction; nothing of shared/analysis was called
InitAdapters ==
    /\ adapter \in Adapters
    /\ max_positive_examples \in
          IF adapter \in {"extractor", "rag"}
          THEN {InitMaxPositive(adapter, arg) : arg \in MaxPositiveArgs}
          ELSE {0}
    /\ pc = "idle"
    /\ batch = <<>>
    /\ candidate = <<>>
    /\ capture_traces = FALSE
    /\ idx = 0
    /\ outputs = <<>>
    /\ scores = <<>>
    /\ trajectories = None
    /\ generated_answer = <<>>
    /\ retry = NoRetry
    /\ reflective_datasets = <<>>
    /\ origin = <<>>
    /\ trace = <<>>
    /\ reflective_src = <<>>
    /\ analysis = NoCall

\* the processes that write the ledger
Processes == {1, 2}

NoLogger == [pc |-> "none", constructions |-> 0, appends |-> 0]

\* no logger was constructed and the ledger file does not exist
Init ==
    /\ InitAdapters
    /\ csv_file = None
    /\ csv_start = None
    /\ loggers = [p \in Processes |-> NoLogger]
    /\ appended = <<>>

\* the variables of the adapters
adapter_vars == <<adapter, max_positive_examples, pc, batch, candidate, capture_traces, idx,
                  outputs, scores, trajectories, generated_answer, retry,
                  reflective_datasets, origin, trace, reflective_src>>

\* the adapter is constructed and no call was made yet
Callable == pc = "idle"

CallEvent(caller, outcome) == [op |-> "call", caller |-> caller, idx |-> idx, outcome |-> outcome]
\* argument of time.sleep between two attempts
RetrySleepSeconds == 1

SleepEvent(caller) == [op |-> "sleep", caller |-> caller, idx |-> idx, seconds |-> RetrySleepSeconds]

\* entry of evaluate(): the three lists and the system prompt.  evaluate() keeps
\* nothing between calls (its lists are locals), so one call on the constructed
\* adapter stands for any call.
Evaluate(b, c, ct) ==
    /\ Callable
    /\ pc' = "loop"
    /\ batch' = b
    /\ candidate' = c
    /\ capture_traces' = ct
    /\ idx' = 1
    /\ outputs' = <<>>
    /\ scores' = <<>>
    /\ trajectories' = IF ct THEN Some(<<>>) ELSE None
    /\ UNCHANGED <<ledger_vars, analysis, adapter, max_positive_examples, generated_answer, retry,
                   reflective_datasets, origin, trace, reflective_src>>

\* outputs.append / scores.append / trajectories.append of one loop iteration
AppendResult(output, score, trajectory) ==
    /\ outputs' = Append(outputs, output)
    /\ scores' = Append(scores, score)
    /\ trajectories' = IF capture_traces THEN Some(Append(trajectories[1], trajectory))
                       ELSE trajectories
    /\ origin' = Append(origin, idx)

\* mutant: the failed example keeps an entry in outputs only
DropExampleKeepsOutput ==
    /\ outputs' = Append(outputs, [error |-> <<"dropped">>])
    /\ UNCHANGED <<scores, trajectories, origin>>

\* mutant: the failed example is scored 0.0 instead of being dropped
DropExampleScoresZero ==
    AppendResult([error |-> <<"failed">>], Zero, [error |-> <<"failed">>])

\* the except branch of the Classifier, Extractor and SQL loops: warn and go on
DropExample == UNCHANGED <<outputs, scores, trajectories, origin>>

\* one iteration of the loop of SimpleClassifierAdapter.evaluate
ClassifierExample ==
    /\ pc = "loop" /\ adapter = "classifier" /\ idx <= Len(batch)
    /\ \E outcome \in TransportOutcomes(adapter, "task") :
         LET example == batch[idx]
             system_prompt == Get(candidate, "system_prompt", <<>>)
             user_text == Get(example, "text", <<>>)
             expected_class == Get(example, GetLabelKey(example), <<>>)
         IN /\ trace' = Append(trace, CallEvent("task", outcome))
            /\ IF outcome.kind = "raise" THEN DropExample
               ELSE LET predicted_class == Lower(outcome.content[1])
                        is_correct == predicted_class = Lower(expected_class)
                        score == IF is_correct THEN One ELSE Zero
                    IN AppendResult(
                         [predicted |-> predicted_class, expected |-> expected_class,
                          text |-> user_text],
                         score,
                         [input |-> user_text, expected |-> expected_class,
                          predicted |-> predicted_class, system_prompt |-> system_prompt,
                          correct |-> is_correct])
    /\ idx' = idx + 1
    /\ UNCHANGED <<ledger_vars, analysis, adapter, max_positive_examples, pc, batch, candidate, capture_traces,
                   generated_answer, retry, reflective_datasets, reflective_src>>

\* one iteration of the loop of SimpleExtractorAdapter.evaluate
ExtractorExample ==
    /\ pc = "loop" /\ adapter = "extractor" /\ idx <= Len(batch)
    /\ \E outcome \in TransportOutcomes(adapter, "task") :
         LET example == batch[idx]
             system_prompt == Get(candidate, "system_prompt", <<>>)
             user_text == Get(example, "text", <<>>)
             expected_fields == Get(example, "extracted", <<>>)
         IN /\ trace' = Append(trace, CallEvent("task", outcome))
            /\ IF outcome.kind = "raise" THEN DropExample
               ELSE LET extracted_fields == ParseExtraction(outcome.content[1])
                    IN \* extracted_fields.get raises AttributeError unless it is a dict
                       IF extracted_fields.t # "obj" /\ DOMAIN expected_fields # {}
                       THEN DropExample
                       ELSE LET field_comparisons ==
                                    IF DOMAIN expected_fields = {} THEN <<>>
                                    ELSE FieldComparisons(extracted_fields, expected_fields)
                                score == ExtractorScore(field_comparisons)
                            IN AppendResult(
                                 [extracted |-> extracted_fields, expected |-> expected_fields,
                                  field_comparisons |-> field_comparisons, text |-> user_text],
                                 score,
                                 [input |-> user_text, expected_fields |-> expected_fields,
                                  extracted_fields |-> extracted_fields,
                                  field_comparisons |-> field_comparisons,
                                  system_prompt |-> system_prompt, score |-> score])
    /\ idx' = idx + 1
    /\ UNCHANGED <<ledger_vars, analysis, adapter, max_positive_examples, pc, batch, candidate, capture_traces,
                   generated_answer, retry, reflective_datasets, reflective_src>>

\* one iteration of the loop of SimpleSQLAdapter.evaluate
SqlExample ==
    /\ pc = "loop" /\ adapter = "sql" /\ idx <= Len(batch)
    /\ \E outcome \in TransportOutcomes(adapter, "task") :
         LET example == batch[idx]
             question == Get(example, "question", <<>>)
             schema == Get(Get(example, "extracted", <<>>), "schema", <<>>)
             expected_sql == Get(Get(example, "extracted", <<>>), "expected_sql", <<>>)
             user_content == <<"Esquema: ">> \o schema \o <<"\n", "Pregunta: ">> \o question
         IN /\ trace' = Append(trace, CallEvent("task", outcome))
            /\ IF outcome.kind = "raise" THEN DropExample
               ELSE LET predicted_sql == Strip(RemoveFences(outcome.content[1]))
                        is_correct == CompareSql(predicted_sql, expected_sql)
                        score == IF is_correct THEN One ELSE Zero
                    IN AppendResult(
                         [predicted |-> predicted_sql, expected |-> expected_sql,
                          question |-> question],
                         score,
                         [input |-> user_content, expected |-> expected_sql,
                          predicted |-> predicted_sql, correct |-> is_correct])
    /\ idx' = idx + 1
    /\ UNCHANGED <<ledger_vars, analysis, adapter, max_positive_examples, pc, batch, candidate, capture_traces,
                   generated_answer, retry, reflective_datasets, reflective_src>>

\* mutant: the empty-scores check is missing
EvaluateFinishWithoutCheck ==
    /\ pc = "loop" /\ idx > Len(batch)
    /\ pc' = "returned"
    /\ UNCHANGED <<ledger_vars, analysis, adapter, max_positive_examples, batch, candidate, capture_traces, idx,
                   outputs, scores, trajectories, generated_answer, retry,
                   reflective_datasets, origin, trace, reflective_src>>

\* mutant: the RAG adapter, too, raises when scores is empty
EvaluateFinishAllRaise ==
    /\ pc = "loop" /\ idx > Len(batch)
    /\ pc' = IF scores = <<>> THEN "raised" ELSE "returned"
    /\ UNCHANGED <<ledger_vars, analysis, adapter, max_positive_examples, batch, candidate, capture_traces, idx,
                   outputs, scores, trajectories, generated_answer, retry,
                   reflective_datasets, origin, trace, reflective_src>>

\* after the loop of evaluate(): the Classifier, Extractor and SQL adapters raise
\* RuntimeError when scores is empty; otherwise the EvaluationBatch is returned
EvaluateFinish ==
    /\ pc = "loop" /\ idx > Len(batch)
    /\ pc' = IF adapter \in DroppingAdapters /\ scores = <<>> THEN "raised" ELSE "returned"
    /\ UNCHANGED <<ledger_vars, analysis, adapter, max_positive_examples, batch, candidate, capture_traces, idx,
                   outputs, scores, trajectories, generated_answer, retry,
                   reflective_datasets, origin, trace, reflective_src>>

\* entry of _call_llm_with_retry
StartRetry(max_retries, caller) ==
    /\ retry' = [max_retries |-> max_retries, attempt |-> 0, caller |-> caller,
                 result |-> Returned(None)]
    /\ pc' = "retry"

\* return or raise of _call_llm_with_retry
FinishRetry(result) ==
    /\ retry' = [retry EXCEPT !.result = result]
    /\ pc' = IF retry.caller = "direct" THEN "called" ELSE "retry_done"

\* mutant: the wrapper also sleeps after its last attempt
AttemptsRemainAfterLast(r) == r.attempt < r.max_retries

\* attempt < max_retries - 1: another attempt follows a moderation rejection
AttemptsRemain(r) == r.attempt < r.max_retries - 1

\* one pass of the for loop of _call_llm_with_retry: the transport call and its handling
LLMAttempt ==
    /\ pc = "retry" /\ retry.attempt < retry.max_retries
    /\ \E outcome \in TransportOutcomes(adapter, retry.caller) :
         LET called == Append(trace, CallEvent(retry.caller, outcome))
         IN IF outcome.kind = "return"
            THEN /\ trace' = called
                 /\ FinishRetry(Returned(outcome.content))
            ELSE IF IsModeration(outcome.msg)
            THEN IF AttemptsRemain(retry)
                 THEN /\ trace' = Append(called, SleepEvent(retry.caller))
                      /\ retry' = [retry EXCEPT !.attempt = retry.attempt + 1]
                      /\ pc' = pc
                 ELSE /\ trace' = called
                      /\ FinishRetry(Returned(None))
            ELSE /\ trace' = called
                 /\ FinishRetry(Raised(outcome.msg))
    /\ UNCHANGED <<ledger_vars, analysis, adapter, max_positive_examples, batch, candidate, capture_traces, idx,
                   outputs, scores, trajectories, generated_answer,
                   reflective_datasets, origin, reflective_src>>

\* the return None after the for loop of _call_llm_with_retry
LLMLoopExhausted ==
    /\ pc = "retry" /\ retry.attempt >= retry.max_retries
    /\ FinishRetry(Returned(None))
    /\ UNCHANGED <<ledger_vars, analysis, adapter, max_positive_examples, batch, candidate, capture_traces, idx,
                   outputs, scores, trajectories, generated_answer,
                   reflective_datasets, origin, trace, reflective_src>>

\* a call of _call_llm_with_retry(messages, max_retries) from outside evaluate()
CallLLMWithRetry(max_retries) ==
    /\ Callable /\ adapter = "rag"
    /\ StartRetry(max_retries, "direct")
    /\ UNCHANGED <<ledger_vars, analysis, adapter, max_positive_examples, batch, candidate, capture_traces, idx,
                   outputs, scores, trajectories, generated_answer,
                   reflective_datasets, origin, trace, reflective_src>>

\* head of one iteration of SimpleRAGAdapter.evaluate: the generation call
RagGenerate ==
    /\ pc = "loop" /\ adapter = "rag" /\ idx <= Len(batch)
    /\ StartRetry(DefaultMaxRetries, "gen")
    /\ UNCHANGED <<ledger_vars, analysis, adapter, max_positive_examples, batch, candidate, capture_traces, idx,
                   outputs, scores, trajectories, generated_answer,
                   reflective_datasets, origin, trace, reflective_src>>

\* mutant: the except branch drops the example as the other adapters do
RagExceptBranchDrops(msg) == DropExample

\* the except branch of the loop of SimpleRAGAdapter.evaluate
RagExceptBranch(msg) == AppendResult([error |-> msg], Zero, [error |-> msg])

\* mutant: a blocked generation is not penalised
RagBlockedBranchFullScore ==
    AppendResult([error |-> <<"Content filter blocked request">>], One,
                 [error |-> <<"Content filter blocked request">>])

\* the response_content is None branch of SimpleRAGAdapter.evaluate
RagBlockedBranch ==
    AppendResult([error |-> <<"Content filter blocked request">>], Zero,
                 [error |-> <<"Content filter blocked request">>])

\* SimpleRAGAdapter.evaluate after the generation call: the blocked branch, the
\* except branch, or the call of the judge
RagAfterGeneration ==
    /\ pc = "retry_done" /\ retry.caller = "gen"
    /\ IF retry.result.kind = "raise"
       THEN /\ RagExceptBranch(retry.result.msg)
            /\ idx' = idx + 1
            /\ pc' = "loop"
            /\ UNCHANGED <<generated_answer, retry>>
       ELSE IF IsNone(retry.result.content)
       THEN /\ RagBlockedBranch
            /\ idx' = idx + 1
            /\ pc' = "loop"
            /\ UNCHANGED <<generated_answer, retry>>
       ELSE /\ generated_answer' = Strip(retry.result.content[1])
            /\ StartRetry(DefaultMaxRetries, "judge")
            /\ UNCHANGED <<idx, outputs, scores, trajectories, origin>>
    /\ UNCHANGED <<ledger_vars, analysis, adapter, max_positive_examples, batch, candidate, capture_traces,
                   reflective_datasets, trace, reflective_src>>

\* SimpleRAGAdapter.evaluate after _evaluate_with_judge: record the example
RagAfterJudge ==
    /\ pc = "retry_done" /\ retry.caller = "judge"
    /\ LET example == batch[idx]
           question == Get(example, "question", <<>>)
           context == Get(example, "context", <<>>)
           ground_truth == Get(example, "answer", <<>>)
           system_prompt == Get(candidate, "system_prompt", <<>>)
           judged == EvaluateWithJudge(retry.result)
       IN AppendResult(
            [generated_answer |-> generated_answer, ground_truth |-> ground_truth,
             judge_feedback |-> judged.feedback],
            judged.score,
            [question |-> question, context |-> context, ground_truth |-> ground_truth,
             generated_answer |-> generated_answer, score |-> judged.score,
             judge_feedback |-> judged.feedback, system_prompt |-> system_prompt])
    /\ idx' = idx + 1
    /\ pc' = "loop"
    /\ UNCHANGED <<ledger_vars, analysis, adapter, max_positive_examples, batch, candidate, capture_traces,
                   generated_answer, retry, reflective_datasets, trace, reflective_src>>

(* ---------------------- make_reflective_dataset ------------------------ *)
\* Config defaults read by make_reflective_dataset
CLASSIFIER_TEXT_MAX_LENGTH == 1000
EXTRACTOR_TEXT_MAX_LENGTH == 1000
RAG_CONTEXT_MAX_LENGTH == 1500

\* len() of a run of characters
RunWidth == [a \in {Runs[n] : n \in 1..MaxRun} |-> CHOOSE n \in 1..MaxRun : Runs[n] = a]

\* len() of one element of a text: 1 for a character, the length of a longer unit
Width(a) ==
    CASE a \in DOMAIN RunWidth -> RunWidth[a]
      [] a = "..." -> 3
      [] a = "EJEMPLO EXITOSO: " -> 17
      [] a \in {"PUNTAJE:", "Puntaje:", "problema"} -> 8
      [] a \in {"SCORE:", "score:", "RAZON:", "ERROR:"} -> 6
      [] a \in {"reason:"} -> 7
      [] a \in {"1.0", "1.5", "0.0", "API"} -> 3
      [] a \in {"0.75"} -> 4
      [] a \in {"error", "Error"} -> 5
      [] a \in {"content_filter"} -> 14
      [] a \in {"Error del Juez: ", "Caso incorrecto:"} -> 16
      [] a \in {"Juez bloqueado por content filter"} -> 33
      [] a \in {"Respuesta incorrecta."} -> 21
      [] a \in {"Respuesta no optima."} -> 20
      [] a \in {"Respuesta perfecta."} -> 19
      [] a \in {"incorrecta"} -> 10
      [] a \in {"no optima"} -> 9
      [] a \in {"alucinacion"} -> 11
      [] a \in {"informacion no verificable"} -> 26
      [] OTHER -> 1

\* len(text)
RECURSIVE TextLen(_)
TextLen(s) == IF s = <<>> THEN 0 ELSE Width(Head(s)) + TextLen(Tail(s))

\* text[:n]; the characters kept of an element that the cut splits are a run
RECURSIVE Prefix(_, _)
Prefix(s, n) ==
    IF s = <<>> \/ n <= 0 THEN <<>>
    ELSE IF Width(Head(s)) > n THEN <<Runs[n]>>
    ELSE <<Head(s)>> \o Prefix(Tail(s), n - Width(Head(s)))

\* text[:max_len] + "..." if len(text) > max_len else text
Truncate(text, max_len) ==
    IF TextLen(text) > max_len THEN Prefix(text, max_len) \o <<"...">> ELSE text

\* the four str.replace calls of _sanitize_for_reflection, on one element
SanitizeWord(a) ==
    LET r1 == IF a = "ERROR:" THEN "Caso incorrecto:" ELSE a
        r2 == IF r1 = "alucinacion" THEN "informacion no verificable" ELSE r1
        r3 == CASE r2 = "incorrecta" -> "no optima"
                [] r2 = "Respuesta incorrecta." -> "Respuesta no optima."
                [] OTHER -> r2
    IN IF r3 = "error" THEN "problema" ELSE r3

\* mutant: the replacements without the cut at 500 characters
SanitizeWithoutTruncation(text) ==
    IF text = <<>> THEN text
    ELSE [i \in 1..Len(text) |-> SanitizeWord(text[i])]

\* SimpleRAGAdapter._sanitize_for_reflection
SanitizeForReflection(text) ==
    IF text = <<>> THEN text
    ELSE LET sanitized == [i \in 1..Len(text) |-> SanitizeWord(text[i])]
         IN IF TextLen(sanitized) > 500 THEN Prefix(sanitized, 497) \o <<"...">>
            ELSE sanitized

\* sep.join(parts)
RECURSIVE Join(_, _)
Join(parts, sep) ==
    IF parts = <<>> THEN <<>>
    ELSE IF Len(parts) = 1 THEN parts[1]
    ELSE parts[1] \o <<sep>> \o Join(Tail(parts), sep)

\* iteration order of the field dicts
FieldOrder == <<"name", "age", "role">>
Keys(d) == SelectSeq(FieldOrder, LAMBDA f : f \in DOMAIN d)

\* eval_batch.trajectories if eval_batch.trajectories else eval_batch.outputs
SourceData == IF ~IsNone(trajectories) /\ trajectories[1] # <<>> THEN trajectories[1] ELSE outputs

\* the record SimpleClassifierAdapter.make_reflective_dataset builds for data
ClassifierNegative(data) ==
    LET text == Get(data, "input", Get(data, "text", <<>>))
        pred == Get(data, "predicted", <<>>)
        exp == Get(data, "expected", <<>>)
    IN [Inputs |-> [text |-> Truncate(text, CLASSIFIER_TEXT_MAX_LENGTH)],
        Feedback |-> <<"Clasificacion incorrecta. Se esperaba '">> \o exp
                       \o <<"' pero se obtuvo '">> \o pred \o <<"'.">>]
       @@ ("Generated Outputs" :> [predicted_class |-> pred, expected_class |-> exp])

\* the record SimpleSQLAdapter.make_reflective_dataset builds for data
SqlNegative(data) ==
    [Inputs |-> [question |-> Get(data, "question", <<>>),
                 expected_sql |-> Get(data, "expected", <<>>)],
     Feedback |-> <<"El SQL generado no coincide con el esperado. Sigue el esquema y sintaxis exacta.">>]
    @@ ("Generated Outputs" :> [predicted_sql |-> Get(data, "predicted", <<>>)])

\* the negative record of SimpleExtractorAdapter.make_reflective_dataset
ExtractorNegative(data) ==
    LET field_comparisons == Get(data, "field_comparisons", <<>>)
        wrong == SelectSeq(Keys(field_comparisons),
                           LAMBDA f : ~field_comparisons[f].correct)
        errors == [k \in 1..Len(wrong) |->
                     <<"'", wrong[k], "': exp='">>
                       \o PyStr(field_comparisons[wrong[k]].expected)
                       \o <<"', got='">> \o PyStr(field_comparisons[wrong[k]].extracted)
                       \o <<"'">>]
        cv_text == Get(data, "input", Get(data, "text", <<>>))
    IN [Inputs |-> [cv_text |-> Truncate(cv_text, EXTRACTOR_TEXT_MAX_LENGTH)],
        Feedback |-> <<"Errores: ">> \o Join(errors, "; ")
                       \o <<". Revisa el formato JSON y la extraccion exacta.">>,
        Type |-> "negative_example"]
       @@ ("Generated Outputs" :>
             [extracted_fields |-> Get(data, "extracted_fields", Get(data, "extracted", NullVal))])

\* the positive record of SimpleExtractorAdapter.make_reflective_dataset
ExtractorPositive(data) ==
    LET cv_text == Get(data, "input", Get(data, "text", <<>>))
        extracted == Get(data, "extracted_fields", Get(data, "extracted", EmptyDict))
        expected == Get(data, "expected", <<>>)
        matching == SelectSeq(Keys(extracted.m),
                              LAMBDA f : f \in DOMAIN expected /\ expected[f] = extracted.m[f])
        correct_fields == [k \in 1..Len(matching) |->
                             <<"'", matching[k], "': '">>
                               \o PyStr(extracted.m[matching[k]]) \o <<"'">>]
    IN [Inputs |-> [cv_text |-> Truncate(cv_text, EXTRACTOR_TEXT_MAX_LENGTH)],
        Feedback |-> <<"EJEMPLO EXITOSO: Extraccion perfecta. Campos correctos: ">>
                       \o Join(correct_fields, ", ") \o <<".">>,
        Type |-> "positive_example"]
       @@ ("Generated Outputs" :> [extracted_fields |-> extracted])

\* the record of SimpleRAGAdapter.make_reflective_dataset; positive adds the prefix
RagRecord(data, positive, max_len) ==
    LET q == Get(data, "question", <<>>)
        ctx == Get(data, "context", <<>>)
        gen == Get(data, "generated_answer", <<>>)
        gt == Get(data, "ground_truth", <<>>)
        fb == Get(data, "judge_feedback",
                  IF positive THEN <<"Respuesta perfecta.">> ELSE <<"Respuesta incorrecta.">>)
        contexto_truncado == Truncate(ctx, max_len)
    IN [Inputs |-> [pregunta |-> SanitizeForReflection(q),
                    contexto |-> SanitizeForReflection(contexto_truncado)],
        Type |-> IF positive THEN "positive_example" ELSE "negative_example"]
       @@ ("Generated Outputs" :> [respuesta_generada |-> SanitizeForReflection(gen)])
       @@ ("Ideal Output (Ground Truth)" :> SanitizeForReflection(gt))
       @@ ("Feedback (del Juez)" :>
             IF positive THEN <<"EJEMPLO EXITOSO: ">> \o SanitizeForReflection(fb)
             ELSE SanitizeForReflection(fb))

NegativeRecord(a, data, max_len) ==
    CASE a = "classifier" -> ClassifierNegative(data)
      [] a = "sql" -> SqlNegative(data)
      [] a = "extractor" -> ExtractorNegative(data)
      [] a = "rag" -> RagRecord(data, FALSE, max_len)

PositiveRecord(a, data, max_len) ==
    IF a = "extractor" THEN ExtractorPositive(data) ELSE RagRecord(data, TRUE, max_len)

Min(a, b) == IF a < b THEN a ELSE b

\* mutant: the score test of the negative loop is left out
NegativePositionsEveryScore(source) ==
    [i \in 1..Min(Len(source), Len(scores)) |-> i]

\* positions of zip(source_data, eval_batch.scores) the negative loop takes
NegativePositions(source) ==
    SelectSeq([i \in 1..Min(Len(source), Len(scores)) |-> i],
              LAMBDA i : LessThanOne(scores[i]))

\* mutant: the slice [:self.max_positive_examples] is left out
PositivePositionsUncapped(source) ==
    IF adapter \in {"extractor", "rag"} /\ max_positive_examples > 0
    THEN SelectSeq([i \in 1..Min(Len(source), Len(scores)) |-> i],
                   LAMBDA i : EqualsOne(scores[i]))
    ELSE <<>>

\* positive_examples[:self.max_positive_examples]
PositivePositions(source) ==
    IF adapter \in {"extractor", "rag"} /\ max_positive_examples > 0
    THEN LET positive_examples ==
                 SelectSeq([i \in 1..Min(Len(source), Len(scores)) |-> i],
                           LAMBDA i : EqualsOne(scores[i]))
         IN SubSeq(positive_examples, 1, Min(max_positive_examples, Len(positive_examples)))
    ELSE <<>>

ComponentLists == {<<"system_prompt", "instructions">>, <<"instructions">>}

\* the values Config.RAG_CONTEXT_MAX_LENGTH holds when the RAG adapter reads it:
\* the default, or one set by apply_yaml_config
RagContextMaxLengths == {RAG_CONTEXT_MAX_LENGTH, 400}

\* make_reflective_dataset(candidate, eval_batch, components_to_update) on the
\* EvaluationBatch evaluate() returned; max_len is the value it reads from
\* Config.RAG_CONTEXT_MAX_LENGTH
MakeReflectiveDataset(components_to_update, max_len) ==
    /\ pc = "returned"
    /\ LET components == {components_to_update[i] : i \in 1..Len(components_to_update)}
           source_data == SourceData
           neg == NegativePositions(source_data)
           pos == PositivePositions(source_data)
           records == [k \in 1..Len(neg) |-> NegativeRecord(adapter, source_data[neg[k]], max_len)]
                        \o [k \in 1..Len(pos) |-> PositiveRecord(adapter, source_data[pos[k]], max_len)]
       IN IF "system_prompt" \notin components
          THEN /\ reflective_datasets' = [c \in components |-> <<>>]
               /\ reflective_src' = <<>>
          ELSE /\ reflective_datasets' =
                     [c \in components |-> IF c = "system_prompt" THEN records ELSE <<>>]
               /\ reflective_src' =
                     [k \in 1..Len(neg) |-> [pos |-> neg[k], negative |-> TRUE]]
                       \o [k \in 1..Len(pos) |-> [pos |-> pos[k], negative |-> FALSE]]
    /\ pc' = "reflected"
    /\ UNCHANGED <<ledger_vars, analysis, adapter, max_positive_examples, batch, candidate, capture_traces, idx,
                   outputs, scores, trajectories, generated_answer, retry, origin, trace>>

Next ==
    \/ \E b \in Batches(adapter), c \in Candidates, ct \in BOOLEAN : Evaluate(b, c, ct)
    \/ ClassifierExample
    \/ ExtractorExample
    \/ SqlExample
    \/ EvaluateFinish
    \/ \E n \in 0..MaxRetries : CallLLMWithRetry(n)
    \/ LLMAttempt
    \/ LLMLoopExhausted
    \/ RagGenerate
    \/ RagAfterGeneration
    \/ RagAfterJudge
    \/ \E components \in ComponentLists, max_len \in RagContextMaxLengths :
          MakeReflectiveDataset(components, max_len)

Spec == Init /\ [][Next]_vars

(* ------------------ shared/analysis: roi_calculator.py ------------------ *)
\* Amounts of money are integers in units of 10^-8 USD: a price is held in
\* cents per 1M tokens, so that tokens * price is the exact cost of the tokens.

\* ModelPricing(name, input_price, output_price)
ModelPricing(name, input_price, output_price) ==
    [name |-> name, input_price |-> input_price, output_price |-> output_price]

\* ModelPricing.cost_per_call
cost_per_call(pricing, input_tokens, output_tokens) ==
    input_tokens * pricing.input_price + output_tokens * pricing.output_price

DEFAULT_PRICING ==
    (<<"gpt-4o">> :> ModelPricing("GPT-4o", 250, 1000))
    @@ (<<"gpt-4.1-mini">> :> ModelPricing("GPT-4.1-mini", 15, 60))
    @@ (<<"gpt-4o-mini">> :> ModelPricing("GPT-4o-mini", 15, 60))

DEFAULT_TOKEN_ESTIMATES ==
    ("Email Urgency" :> [input |-> 300, output |-> 50])
    @@ ("CV Extraction" :> [input |-> 800, output |-> 200])
    @@ ("Text-to-SQL" :> [input |-> 400, output |-> 150])
    @@ ("RAG Optimization" :> [input |-> 600, output |-> 300])
    @@ ("default" :> [input |-> 500, output |-> 150])

FALLBACK_MAX_CALLS == 30
FALLBACK_VAL_SIZE == 5

DEFAULT_VAL_SIZES ==
    ("Email Urgency" :> 10) @@ ("CV Extraction" :> 5)
    @@ ("Text-to-SQL" :> 6) @@ ("RAG Optimization" :> 4)

\* str.replace("azure/", "") on a lower-cased model name
RemoveAzurePrefix(name) == SelectSeq(name, LAMBDA w : w # "azure/")

\* get_model_pricing(model_name, pricing); pricing is None or a table
get_model_pricing(model_name, pricing) ==
    LET table == IF IsNone(pricing) \/ DOMAIN pricing[1] = {} THEN DEFAULT_PRICING
                 ELSE pricing[1]
        model_key == RemoveAzurePrefix(Lower(model_name))
    IN Get(table, model_key, Get(table, <<"gpt-4o-mini">>, DEFAULT_PRICING[<<"gpt-4o-mini">>]))

\* mutant: the baseline evaluation pass is not counted
calculate_optimization_cost_without_baseline(case_name, task_model, reflection_model, max_calls, val_size) ==
    LET size == IF IsNone(val_size) THEN Get(DEFAULT_VAL_SIZES, case_name, FALLBACK_VAL_SIZE)
                ELSE val_size[1]
        tokens == Get(DEFAULT_TOKEN_ESTIMATES, case_name, DEFAULT_TOKEN_ESTIMATES["default"])
        task_pricing == get_model_pricing(task_model, None)
        reflection_pricing == get_model_pricing(reflection_model, None)
        task_calls == max_calls * size
        reflection_calls == max_calls \div 2
        task_cost == task_calls * cost_per_call(task_pricing, tokens.input, tokens.output)
        reflection_cost ==
            reflection_calls
              * cost_per_call(reflection_pricing, tokens.input * 3, tokens.output * 2)
    IN [task_calls |-> task_calls, task_cost |-> task_cost,
        reflection_calls |-> reflection_calls, reflection_cost |-> reflection_cost,
        total_cost |-> task_cost + reflection_cost,
        task_pricing |-> task_pricing, reflection_pricing |-> reflection_pricing]

\* calculate_optimization_cost(case_name, task_model, reflection_model, max_calls,
\* val_size), with token_estimates and pricing left at None
calculate_optimization_cost(case_name, task_model, reflection_model, max_calls, val_size) ==
    LET size == IF IsNone(val_size) THEN Get(DEFAULT_VAL_SIZES, case_name, FALLBACK_VAL_SIZE)
                ELSE val_size[1]
        tokens == Get(DEFAULT_TOKEN_ESTIMATES, case_name, DEFAULT_TOKEN_ESTIMATES["default"])
        task_pricing == get_model_pricing(task_model, None)
        reflection_pricing == get_model_pricing(reflection_model, None)
        task_calls == (max_calls + 1) * size
        reflection_calls == max_calls \div 2
        task_cost == task_calls * cost_per_call(task_pricing, tokens.input, tokens.output)
        reflection_cost ==
            reflection_calls
              * cost_per_call(reflection_pricing, tokens.input * 3, tokens.output * 2)
    IN [task_calls |-> task_calls, task_cost |-> task_cost,
        reflection_calls |-> reflection_calls, reflection_cost |-> reflection_cost,
        total_cost |-> task_cost + reflection_cost,
        task_pricing |-> task_pricing, reflection_pricing |-> reflection_pricing]

Abs(n) == IF n < 0 THEN 0 - n ELSE n

\* int(n / d) for d > 0: the quotient truncated towards zero
Trunc(n, d) == IF n >= 0 THEN n \div d ELSE 0 - ((0 - n) \div d)

\* the float n / d * 100 for d > 0, as a reduced fraction
Percentage(n, d) ==
    LET g == Gcd(Abs(n), d)
        h == Gcd(100, d \div g)
    IN [num |-> (n \div g) * (100 \div h), den |-> (d \div g) \div h]

\* mutant: the break-even point is taken at the token counts of the savings
calculate_production_roi_inflated_breakeven(case_name, optimization_cost, expensive_model, cheap_model, production_calls) ==
    LET tokens == Get(DEFAULT_TOKEN_ESTIMATES, case_name, DEFAULT_TOKEN_ESTIMATES["default"])
        expensive_pricing == get_model_pricing(expensive_model, None)
        cheap_pricing == get_model_pricing(cheap_model, None)
        cost_without_gepa ==
            production_calls * cost_per_call(expensive_pricing, tokens.input, tokens.output)
        cost_with_gepa_production ==
            production_calls * cost_per_call(cheap_pricing, tokens.input + 500, tokens.output)
        cost_with_gepa_total == cost_with_gepa_production + optimization_cost
        savings == cost_without_gepa - cost_with_gepa_total
        roi_percentage ==
            IF optimization_cost > 0 THEN Percentage(savings, optimization_cost) ELSE Zero
        cost_per_call_diff ==
            cost_per_call(expensive_pricing, tokens.input, tokens.output)
              - cost_per_call(cheap_pricing, tokens.input + 500, tokens.output)
        breakeven_calls ==
            IF cost_per_call_diff > 0 THEN Trunc(optimization_cost, cost_per_call_diff) ELSE 0
    IN [production_calls |-> production_calls,
        cost_without_gepa |-> cost_without_gepa,
        cost_with_gepa_total |-> cost_with_gepa_total,
        cost_with_gepa_production |-> cost_with_gepa_production,
        optimization_cost |-> optimization_cost,
        savings |-> savings,
        roi_percentage |-> roi_percentage,
        breakeven_calls |-> breakeven_calls]

\* calculate_production_roi(case_name, optimization_cost, expensive_model,
\* cheap_model, production_calls), with token_estimates and pricing left at None
calculate_production_roi(case_name, optimization_cost, expensive_model, cheap_model, production_calls) ==
    LET tokens == Get(DEFAULT_TOKEN_ESTIMATES, case_name, DEFAULT_TOKEN_ESTIMATES["default"])
        expensive_pricing == get_model_pricing(expensive_model, None)
        cheap_pricing == get_model_pricing(cheap_model, None)
        cost_without_gepa ==
            production_calls * cost_per_call(expensive_pricing, tokens.input, tokens.output)
        cost_with_gepa_production ==
            production_calls * cost_per_call(cheap_pricing, tokens.input + 500, tokens.output)
        cost_with_gepa_total == cost_with_gepa_production + optimization_cost
        savings == cost_without_gepa - cost_with_gepa_total
        roi_percentage ==
            IF optimization_cost > 0 THEN Percentage(savings, optimization_cost) ELSE Zero
        cost_per_call_diff ==
            cost_per_call(expensive_pricing, tokens.input, tokens.output)
              - cost_per_call(cheap_pricing, tokens.input, tokens.output)
        breakeven_calls ==
            IF cost_per_call_diff > 0 THEN Trunc(optimization_cost, cost_per_call_diff) ELSE 0
    IN [production_calls |-> production_calls,
        cost_without_gepa |-> cost_without_gepa,
        cost_with_gepa_total |-> cost_with_gepa_total,
        cost_with_gepa_production |-> cost_with_gepa_production,
        optimization_cost |-> optimization_cost,
        savings |-> savings,
        roi_percentage |-> roi_percentage,
        breakeven_calls |-> breakeven_calls]

(* ---------------- shared/analysis: base.py, leaderboard.py -------------- *)
\* a < b and a == b on floats held as fractions (both false when one is nan)
FloatLess(a, b) == a.den > 0 /\ b.den > 0 /\ a.num * b.den < b.num * a.den
FloatEq(a, b) == a.den > 0 /\ b.den > 0 /\ a.num * b.den = b.num * a.den

\* the float n for an integer n >= 0
FloatOfInt(n) == [num |-> n, den |-> 1]

\* the float n / d, d > 0, of either sign
Reduce(n, d) ==
    IF n >= 0 THEN Frac(n, d)
    ELSE [num |-> 0 - Frac(0 - n, d).num, den |-> Frac(0 - n, d).den]

\* a + b and a - b; nan stays nan
FloatPlus(a, b) ==
    IF a.den = 0 \/ b.den = 0 THEN NaN
    ELSE Reduce(a.num * b.den + b.num * a.den, a.den * b.den)
FloatMinus(a, b) ==
    IF a.den = 0 \/ b.den = 0 THEN NaN
    ELSE Reduce(a.num * b.den - b.num * a.den, a.den * b.den)

\* a * b, and a / b for b > 0; nan stays nan
FloatTimes(a, b) == IF a.den = 0 \/ b.den = 0 THEN NaN ELSE Reduce(a.num * b.num, a.den * b.den)
FloatDiv(a, b) == IF a.den = 0 \/ b.den = 0 THEN NaN ELSE Reduce(a.num * b.den, a.den * b.num)

\* statistics.mean(values) of a list that is not empty
RECURSIVE FloatSum(_)
FloatSum(values) ==
    IF values = <<>> THEN Zero ELSE FloatPlus(Head(values), FloatSum(Tail(values)))
mean(values) == FloatDiv(FloatSum(values), FloatOfInt(Len(values)))

\* parse_float(value) on the cells of the model: a decimal comma becomes a
\* point, float() reads the number (or nan), anything else gives 0.0
parse_float(value) ==
    CASE value = "0" -> Zero
      [] value = "0,5" -> Frac(1, 2)
      [] value = "0,75" -> Frac(3, 4)
      [] value = "1" -> One
      [] value = "50" -> FloatOfInt(50)
      [] value = "100" -> FloatOfInt(100)
      [] value = "nan" -> NaN
      [] OTHER -> Zero

\* the digits of n, padded with zeros to four places
FourDigits(n) ==
    (IF n < 10 THEN "000" ELSE IF n < 100 THEN "00" ELSE IF n < 1000 THEN "0" ELSE "")
      \o ToString(n)

\* format_float(value) with four decimals, for values that have no more
format_float(value) ==
    IF value.den = 0 THEN "nan"
    ELSE LET q == (value.num * 10000) \div value.den
         IN ToString(q \div 10000) \o "," \o FourDigits(q % 10000)

\* detect_scale(scores)
detect_scale(values) ==
    IF \E i \in 1..Len(values) : FloatLess(One, values[i]) THEN FloatOfInt(100) ELSE One

\* (100.0 / scale) if scale > 0 else 1.0
ToPct(scale) == IF FloatLess(Zero, scale) THEN FloatDiv(FloatOfInt(100), scale) ELSE One

\* mutant: a value on a threshold keeps the better label
get_stability_label_inclusive(std, scale) ==
    LET normalized == IF FloatLess(Zero, scale) THEN FloatDiv(std, scale) ELSE std
    IN IF ~FloatLess(Frac(1, 20), normalized) THEN "Alta"
       ELSE IF ~FloatLess(Frac(1, 10), normalized) THEN "Buena"
       ELSE IF ~FloatLess(Frac(3, 20), normalized) THEN "Atencion"
       ELSE "Inestable"

\* get_stability_label(std, scale)
get_stability_label(std, scale) ==
    LET normalized == IF FloatLess(Zero, scale) THEN FloatDiv(std, scale) ELSE std
    IN IF FloatLess(normalized, Frac(1, 20)) THEN "Alta"
       ELSE IF FloatLess(normalized, Frac(1, 10)) THEN "Buena"
       ELSE IF FloatLess(normalized, Frac(3, 20)) THEN "Atencion"
       ELSE "Inestable"

\* the reasons detect_anomalies finds for one row, each one a text
AnomalyReasons(row) ==
    LET base == parse_float(Get(row, "Baseline Score", "0"))
        opt == parse_float(Get(row, "Optimizado Score", "0"))
        rob == parse_float(Get(row, "Robustez Score", "0"))
        scale == detect_scale(<<base, opt, rob>>)
        to_pct == ToPct(scale)
    IN (IF FloatLess(opt, base) THEN << <<"Opt < Base">> >> ELSE <<>>)
         \o (IF FloatLess(rob, base) THEN << <<"Rob < Base">> >> ELSE <<>>)
         \o (IF FloatEq(rob, Zero) \/ FloatEq(rob, One) \/ FloatEq(rob, FloatOfInt(100))
             THEN << <<"Extremo", " (", format_float(FloatTimes(rob, to_pct)), "%)">> >>
             ELSE <<>>)

\* the record detect_anomalies appends for a row that has reasons
AnomalyRecord(row) ==
    LET base == parse_float(Get(row, "Baseline Score", "0"))
        opt == parse_float(Get(row, "Optimizado Score", "0"))
        rob == parse_float(Get(row, "Robustez Score", "0"))
        to_pct == ToPct(detect_scale(<<base, opt, rob>>))
    IN [run_id |-> Get(row, "Run ID", "?"),
        case |-> Get(row, "Caso", "?"),
        source |-> Get(row, "source", "?"),
        base |-> format_float(FloatTimes(base, to_pct)),
        opt |-> format_float(FloatTimes(opt, to_pct)),
        rob |-> format_float(FloatTimes(rob, to_pct)),
        reason |-> Join(AnomalyReasons(row), ", ")]

\* detect_anomalies(data)
RECURSIVE detect_anomalies(_)
detect_anomalies(data) ==
    IF data = <<>> THEN <<>>
    ELSE (IF AnomalyReasons(Head(data)) # <<>> THEN <<AnomalyRecord(Head(data))>> ELSE <<>>)
           \o detect_anomalies(Tail(data))

\* int(s) on the stripped Budget cells and on the digits of the model
IntOf(s) ==
    IF Len(s) # 1 THEN None
    ELSE CASE s[1] = "7" -> Some(7)
           [] s[1] = "20" -> Some(20)
           [] s[1] = "50" -> Some(50)
           [] OTHER -> None

\* re.search(r'Budget:\s*(\d+)', notas): the digits after the first 'Budget:'
\* that is followed, white space apart, by digits
RECURSIVE SearchBudget(_)
SearchBudget(notas) ==
    IF notas = <<>> THEN None
    ELSE IF Head(notas) = "Budget:" /\ LStrip(Tail(notas)) # <<>>
            /\ ~IsNone(IntOf(<<Head(LStrip(Tail(notas)))>>))
    THEN IntOf(<<Head(LStrip(Tail(notas)))>>)
    ELSE SearchBudget(Tail(notas))

\* parse_notas(notas)["budget"]
parse_notas_budget(notas) ==
    IF notas = <<>> \/ Strip(notas) = <<>> THEN None ELSE SearchBudget(notas)

\* extract_budget_from_rows(rows, fallback)
RECURSIVE extract_budget_from_rows(_, _)
extract_budget_from_rows(rows, fallback) ==
    IF rows = <<>> THEN fallback
    ELSE LET row == Head(rows)
             budget_col == Get(row, "Budget", <<>>)
             from_column == IF budget_col # <<>> /\ Strip(budget_col) # <<>>
                            THEN IntOf(Strip(budget_col)) ELSE None
             parsed == parse_notas_budget(Get(row, "Notas", <<>>))
         IN IF ~IsNone(from_column) THEN from_column[1]
            ELSE IF ~IsNone(parsed) THEN parsed[1]
            ELSE extract_budget_from_rows(Tail(rows), fallback)

(* ------------- shared/analysis: the two reports (run) ------------------ *)
\* groups.items(): the positions at which a key occurs for the first time
FirstOccurrences(keys) ==
    SelectSeq([i \in 1..Len(keys) |-> i], LAMBDA i : \A j \in 1..(i - 1) : keys[j] # keys[i])

\* groups[key]: the rows that have the key, in the order of data
GroupRows(data, keys, k) ==
    LET at == SelectSeq([i \in 1..Len(keys) |-> i], LAMBDA i : keys[i] = k)
    IN [n \in 1..Len(at) |-> data[at[n]]]

\* the column of a group as floats: [parse_float(r.get(column, "0")) for r in rows]
Column(rows, column) == [i \in 1..Len(rows) |-> parse_float(Get(rows[i], column, "0"))]

\* list.sort(key=...) on a list of at most two elements, less being the pairs
\* of positions <<j, i>> with key j < key i: an element moves behind the
\* elements whose key is smaller and behind the earlier elements of which the
\* key is not greater
SortBy(list, less) ==
    LET Before(j, i) == <<j, i>> \in less \/ (j < i /\ <<i, j>> \notin less)
        Position(i) == 1 + Cardinality({j \in 1..Len(list) : j # i /\ Before(j, i)})
    IN [p \in 1..Len(list) |-> list[CHOOSE i \in 1..Len(list) : Position(i) = p]]

\* the group key of roi_calculator.run
roi_key(exp) ==
    << Get(exp, "Caso", "Unknown"), Get(exp, "Modelo Tarea", <<"gpt-4o-mini">>),
       Get(exp, "Modelo Profesor", <<"gpt-4o">>) >>

\* the keys of the rows of data, in the order of data
roi_keys(data) == [i \in 1..Len(data) |-> roi_key(data[i])]

\* the entry of results for one group
roi_group(gkey, rows, volume) ==
    LET case_name == gkey[1]
        task_model == gkey[2]
        reflection_model == gkey[3]
        max_calls == extract_budget_from_rows(rows, FALLBACK_MAX_CALLS)
        avg_delta == FloatMinus(mean(Column(rows, "Robustez Score")),
                                mean(Column(rows, "Baseline Score")))
        opt_cost == calculate_optimization_cost(case_name, task_model, reflection_model,
                                                max_calls, None)
        roi_data == calculate_production_roi(case_name, opt_cost.total_cost, reflection_model,
                                             task_model, volume)
        \* avg_delta <= 0 (false for nan)
        not_improved == avg_delta.den > 0 /\ avg_delta.num <= 0
    IN [case_name |-> case_name, task_model |-> task_model,
        reflection_model |-> reflection_model, max_calls |-> max_calls,
        avg_delta |-> avg_delta, opt_cost |-> opt_cost,
        roi_data |-> IF not_improved THEN None ELSE Some(roi_data),
        breakeven |-> IF not_improved THEN None ELSE Some(roi_data.breakeven_calls)]

\* the sort key (x['breakeven'] is None, x['breakeven'] or 0), compared as a tuple
roi_sort_less(x, y) ==
    \/ IsNone(y.breakeven) /\ ~IsNone(x.breakeven)
    \/ /\ ~IsNone(x.breakeven)
       /\ ~IsNone(y.breakeven)
       /\ x.breakeven[1] < y.breakeven[1]

\* roi_calculator.run on the rows load_metrics returns: the sorted results
roi_calculator_run(data, volume) ==
    IF data = <<>> THEN <<>>
    ELSE LET keys == roi_keys(data)
             first == FirstOccurrences(keys)
             results == [g \in 1..Len(first) |->
                            roi_group(keys[first[g]], GroupRows(data, keys, keys[first[g]]),
                                      volume)]
             less == {p \in (1..Len(results)) \X (1..Len(results)) :
                         roi_sort_less(results[p[1]], results[p[2]])}
         IN SortBy(results, less)

\* the group key of leaderboard.run
leaderboard_key(row) ==
    << Get(row, "Caso", "Unknown"), Get(row, "Modelo Tarea", <<"Unknown">>),
       Get(row, "Modelo Profesor", <<"Unknown">>) >>

leaderboard_keys(data) == [i \in 1..Len(data) |-> leaderboard_key(data[i])]

\* the entry of grouped_data for one group; the columns that are only shown
\* (the averages, Std%, Estado, sources) are left out
leaderboard_group(key, rows) ==
    LET case == key[1]
        task == key[2]
        reflect == key[3]
        base == Column(rows, "Baseline Score")
        opt == Column(rows, "Optimizado Score")
        rob == Column(rows, "Robustez Score")
        scale == detect_scale(base \o opt \o rob)
        max_calls == extract_budget_from_rows(rows, FALLBACK_MAX_CALLS)
        opt_cost == calculate_optimization_cost(case, task, reflect, max_calls, None)
        delta_pct == FloatTimes(FloatMinus(mean(rob), mean(base)), ToPct(scale))
        roi == calculate_production_roi(case, opt_cost.total_cost, reflect, task, 1000)
        \* delta_pct > 0 (false for nan)
        improved == delta_pct.den > 0 /\ delta_pct.num > 0
    IN [case |-> case, task |-> task, reflect |-> reflect, runs |-> Len(rows),
        delta_pct |-> delta_pct,
        savings_1k |-> IF improved THEN Some(roi.savings) ELSE None,
        breakeven |-> IF improved THEN Some(roi.breakeven_calls) ELSE None]

\* the order of str on the case names of the model
CaseRank(case) ==
    CASE case = "Email Urgency" -> 0
      [] case = "RAG Optimization" -> 1
      [] case = "Test" -> 2
      [] OTHER -> 3

\* the sort key (x["case"], x["delta_pct"]), compared as a tuple
leaderboard_sort_less(x, y) ==
    IF x.case # y.case THEN CaseRank(x.case) < CaseRank(y.case)
    ELSE FloatLess(x.delta_pct, y.delta_pct)

\* stdev(rob) is called for a group of more than one row; on a nan it raises
\* in some versions of the statistics module and returns nan in the others
StdevMayRaise(data) ==
    LET keys == leaderboard_keys(data)
    IN \E i \in 1..Len(data) :
          LET rob == Column(GroupRows(data, keys, keys[i]), "Robustez Score")
          IN Len(rob) > 1 /\ \E n \in 1..Len(rob) : rob[n] = NaN

\* leaderboard.run on the rows load_metrics returns: the sorted grouped_data,
\* or the exception of stdev
leaderboard_run(data, stdev_raises) ==
    IF data = <<>> THEN [raised |-> FALSE, grouped_data |-> <<>>]
    ELSE IF stdev_raises /\ StdevMayRaise(data) THEN [raised |-> TRUE, grouped_data |-> <<>>]
    ELSE LET keys == leaderboard_keys(data)
             first == FirstOccurrences(keys)
             grouped_data == [g \in 1..Len(first) |->
                                 leaderboard_group(keys[first[g]],
                                                   GroupRows(data, keys, keys[first[g]]))]
             less == {p \in (1..Len(grouped_data)) \X (1..Len(grouped_data)) :
                         leaderboard_sort_less(grouped_data[p[1]], grouped_data[p[2]])}
         IN [raised |-> FALSE, grouped_data |-> SortBy(grouped_data, less)]

(* --------------------- calls into shared/analysis ---------------------- *)
\* how many calls one run of the model makes into shared/analysis
MaxCalls == 2

\* the model identifiers passed to the pricing lookup
ModelNames ==
    { <<"gpt-4o">>, <<"gpt-4o-mini">>, <<"gpt-4.1-mini">>, <<"unknown">>,
      <<"azure/", "gpt-4o">>, <<"AZURE/", "GPT-4O">>, <<"openai/", "gpt-4o">> }

\* the pricing argument: None, an empty table, or a table of the caller
PricingArgs ==
    { None, Some(<<>>),
      Some(<<"gpt-4o">> :> ModelPricing("custom", 300, 1200)),
      Some((<<"gpt-4o">> :> ModelPricing("custom", 300, 1200))
           @@ (<<"gpt-4o-mini">> :> ModelPricing("custom-mini", 10, 40))) }

\* the models of the experiments: a task model and a reflection model
ExperimentModels == { <<"gpt-4o">>, <<"azure/", "gpt-4o-mini">>, <<"gpt-4.1-mini">> }

CaseNames == {"Email Urgency", "RAG Optimization", "Test"}
MaxCallsArgs == {0, 1, 5, FALLBACK_MAX_CALLS}
ValSizeArgs == {None, Some(0), Some(3)}

\* optimization costs: nothing, the price of a few tokens, a multiple of a price
\* difference, 0.01 USD and 1 USD
OptimizationCosts == {0, 250, 517000, 1000000, 100000000}
ProductionCalls == {0, 1, 386, 387, 1000}

\* a call into shared/analysis: the frame keeps the function, its arguments and
\* what it returned (a string or a number as a tuple of one element); seq
\* counts the calls made so far
CallAnalysis(fn, args, result) ==
    /\ analysis.seq < MaxCalls
    /\ analysis.fn \in {"none", fn}
    /\ analysis' = [fn |-> fn, args |-> args, result |-> result, seq |-> analysis.seq + 1]
    /\ UNCHANGED <<adapter_vars, ledger_vars>>

GetModelPricing ==
    \E model_name \in ModelNames, pricing \in PricingArgs :
        CallAnalysis("get_model_pricing",
                     [model_name |-> model_name, pricing |-> pricing],
                     get_model_pricing(model_name, pricing))

CalculateOptimizationCost ==
    \E case_name \in CaseNames, task_model \in ExperimentModels,
       reflection_model \in ExperimentModels, max_calls \in MaxCallsArgs,
       val_size \in ValSizeArgs :
        CallAnalysis("calculate_optimization_cost",
                     [case_name |-> case_name, task_model |-> task_model,
                      reflection_model |-> reflection_model, max_calls |-> max_calls,
                      val_size |-> val_size],
                     calculate_optimization_cost(case_name, task_model, reflection_model,
                                                 max_calls, val_size))

CalculateProductionRoi ==
    \E case_name \in CaseNames, optimization_cost \in OptimizationCosts,
       expensive_model \in ExperimentModels, cheap_model \in ExperimentModels,
       production_calls \in ProductionCalls :
        CallAnalysis("calculate_production_roi",
                     [case_name |-> case_name, optimization_cost |-> optimization_cost,
                      expensive_model |-> expensive_model, cheap_model |-> cheap_model,
                      production_calls |-> production_calls],
                     calculate_production_roi(case_name, optimization_cost, expensive_model,
                                              cheap_model, production_calls))

\* the standard deviations and scales passed to get_stability_label
StdArgs ==
    { Zero, Frac(49, 1000), Frac(1, 20), Frac(99, 1000), Frac(1, 10), Frac(149, 1000),
      Frac(3, 20), Frac(1, 5), FloatOfInt(3), FloatOfInt(5), FloatOfInt(10),
      FloatOfInt(15), FloatOfInt(20) }
ScaleArgs == { One, FloatOfInt(100) }

\* the score cells of a CSV row
ScoreCells == {"0", "0,5", "1", "50", "100", "nan"}

\* rows for detect_anomalies: every combination of three score cells
AnomalyRows ==
    { ("Baseline Score" :> b) @@ ("Optimizado Score" :> o) @@ ("Robustez Score" :> r)
        @@ ("Run ID" :> "r1") : b \in ScoreCells, o \in ScoreCells, r \in ScoreCells }

\* the row lists passed to detect_anomalies: no row, one row, and two rows of
\* which the first is clean or has every reason
AnomalyData ==
    {<<>>} \cup {<<row>> : row \in AnomalyRows}
      \cup {<<first, row>> :
              first \in {x \in AnomalyRows :
                            /\ x["Baseline Score"] = "0,5"
                            /\ x["Optimizado Score"] \in {"0", "1"}
                            /\ x["Robustez Score"] \in {"0", "0,5"}},
              row \in {x \in AnomalyRows : x["Baseline Score"] = "0,5"}}

\* the Budget and Notas cells of a CSV row (None: the column is missing)
BudgetCells == { None, Some(<<>>), Some(<<" ">>), Some(<<"a", "b">>), Some(<<" ", "50", " ">>),
                 Some(<<"20">>) }
NotasCells ==
    { None, Some(<<>>), Some(<<"Strategy:", " ", "m">>),
      Some(<<"Budget:", " ", "7", ",", " ", "Strategy:", " ", "m">>) }

\* a row with the given Budget and Notas cells
BudgetRow(budget, notas) ==
    [k \in {"Run ID"} \cup (IF IsNone(budget) THEN {} ELSE {"Budget"})
                      \cup (IF IsNone(notas) THEN {} ELSE {"Notas"}) |->
        CASE k = "Budget" -> budget[1]
          [] k = "Notas" -> notas[1]
          [] OTHER -> <<"r1">>]

BudgetRows == {BudgetRow(b, n) : b \in BudgetCells, n \in NotasCells}

\* the groups of rows passed to extract_budget_from_rows
BudgetGroups == {<<>>} \cup {<<r>> : r \in BudgetRows} \cup {<<r, q>> : r \in BudgetRows, q \in BudgetRows}

GetStabilityLabel ==
    \E std \in StdArgs, scale \in ScaleArgs :
        CallAnalysis("get_stability_label", [std |-> std, scale |-> scale],
                     <<get_stability_label(std, scale)>>)

DetectAnomalies ==
    \E data \in AnomalyData :
        CallAnalysis("detect_anomalies", [data |-> data], detect_anomalies(data))

ExtractBudgetFromRows ==
    \E rows \in BudgetGroups :
        CallAnalysis("extract_budget_from_rows",
                     [rows |-> rows, fallback |-> FALLBACK_MAX_CALLS],
                     <<extract_budget_from_rows(rows, FALLBACK_MAX_CALLS)>>)

\* the score cells of an experiment: baseline and robustness
ScorePairs ==
    { <<"0,5", "0">>, <<"0,5", "0,5">>, <<"0,5", "0,75">>, <<"0,5", "nan">>,
      <<"nan", "0,5">>, <<"50", "100">> }

\* a row of the metrics file: the model of the task is left out in some
MetricsRows ==
    { [k \in {"Caso", "Modelo Profesor", "Baseline Score", "Robustez Score"}
              \cup (IF IsNone(task) THEN {} ELSE {"Modelo Tarea"}) |->
          CASE k = "Caso" -> case
            [] k = "Modelo Tarea" -> task[1]
            [] k = "Modelo Profesor" -> <<"gpt-4o">>
            [] k = "Baseline Score" -> pair[1]
            [] OTHER -> pair[2]] :
        case \in {"Email Urgency", "Test"}, task \in {None, Some(<<"gpt-4.1-mini">>)},
        pair \in ScorePairs }

\* the metrics loaded by a report: no row, one row, two rows
MetricsData ==
    {<<>>} \cup {<<r>> : r \in MetricsRows} \cup {<<r, q>> : r \in MetricsRows, q \in MetricsRows}

\* the production volume of the ROI report
Volumes == {1000}

RoiCalculatorRun ==
    \E data \in MetricsData, volume \in Volumes :
        CallAnalysis("roi_calculator.run", [data |-> data, volume |-> volume],
                     roi_calculator_run(data, volume))

LeaderboardRun ==
    \E data \in MetricsData, stdev_raises \in BOOLEAN :
        CallAnalysis("leaderboard.run", [data |-> data],
                     leaderboard_run(data, stdev_raises))

\* the SQL strings compared by _compare_sql: one statement written with other
\* case, whitespace and semicolon, and statements with other tokens
SqlStrings ==
    { <<"s", " ", "1">>, <<"S", " ", "1">>, <<"s", " ", "1", ";">>,
      <<"s", " ", "1", " ", ";">>, <<"s", " ", "1", " ">>,
      <<" ", "s", "\t", " ", "1", "\n">>, <<"\n", "S", " ", " ", "1", ";", " ">>,
      <<"s", " ", "2">>, <<"s", "1">>, <<"s", " ", "1", " ", "1">>, <<>> }

CompareSqlCall ==
    \E sql1 \in SqlStrings, sql2 \in SqlStrings :
        CallAnalysis("_compare_sql", [sql1 |-> sql1, sql2 |-> sql2],
                     <<CompareSql(sql1, sql2)>>)

(* ------------------- shared/logging: the CSV ledger -------------------- *)
\* how many loggers one process constructs and how many rows it appends
MaxConstructions == 2
MaxAppends == 2

\* bytes of the header line of STANDARD_COLUMN_MAPPING: twelve column names,
\* eleven delimiters and the line terminator
HeaderLen == 141
\* bytes of the row _prepare_row builds when data holds no key: twelve N/A cells
EmptyRowLen == 49
\* bytes of a row of log_experiment: run id, timestamp, case title, two model
\* names, three scores, run directory, reflection flag, budget and notes
ExperimentRowLen == 192

HeaderLine == [kind |-> "header", proc |-> 0, n |-> 0, len |-> HeaderLen]
RowLine(p, n, len) == [kind |-> "row", proc |-> p, n |-> n, len |-> len]

\* the files the ledger path can hold when the first logger is constructed:
\* no file, the header alone, the header and rows of earlier runs
LedgerFiles ==
    { None, Some(<<HeaderLine>>), Some(<<HeaderLine, RowLine(0, 1, ExperimentRowLen)>>),
      Some(<<HeaderLine, RowLine(0, 1, EmptyRowLen), RowLine(0, 2, ExperimentRowLen)>>) }

\* what is left of the lines of a file after its first n bytes are overwritten
RECURSIVE DropBytes(_, _)
DropBytes(lines, n) ==
    IF lines = <<>> \/ n = 0 THEN lines
    ELSE IF lines[1].len <= n THEN DropBytes(Tail(lines), n - lines[1].len)
    ELSE <<[lines[1] EXCEPT !.kind = "fragment", !.len = lines[1].len - n]>> \o Tail(lines)

\* mutant: the constructor writes the headers whether or not the file exists
EnsureCsvExistsAlwaysWrites(p) ==
    /\ loggers[p].pc \in {"none", "ready"}
    /\ loggers[p].constructions < MaxConstructions
    /\ loggers' = [loggers EXCEPT ![p].pc = "write_headers",
                                  ![p].constructions = @ + 1]
    /\ UNCHANGED <<csv_file, appended, csv_start, analysis, adapter_vars>>

\* BaseCSVLogger.__init__ with create_if_missing: _ensure_csv_exists tests
\* csv_path.exists() and goes on to _write_headers when it is false
EnsureCsvExists(p) ==
    /\ loggers[p].pc \in {"none", "ready"}
    /\ loggers[p].constructions < MaxConstructions
    /\ loggers' = [loggers EXCEPT ![p].pc = IF IsNone(csv_file) THEN "write_headers" ELSE "ready",
                                  ![p].constructions = @ + 1]
    /\ UNCHANGED <<csv_file, appended, csv_start, analysis, adapter_vars>>

\* _write_headers: open(csv_path, "w") creates the file or cuts it to nothing
WriteHeadersOpen(p) ==
    /\ loggers[p].pc = "write_headers"
    /\ csv_file' = Some(<<>>)
    /\ loggers' = [loggers EXCEPT ![p].pc = "headers_open"]
    /\ UNCHANGED <<appended, csv_start, analysis, adapter_vars>>

\* _write_headers: the end of the with block writes the buffered header line at
\* offset 0, over whatever was appended to the file since it was opened
WriteHeadersClose(p) ==
    /\ loggers[p].pc = "headers_open"
    /\ csv_file' = Some(<<HeaderLine>> \o DropBytes(csv_file[1], HeaderLen))
    /\ loggers' = [loggers EXCEPT ![p].pc = "ready"]
    /\ UNCHANGED <<appended, csv_start, analysis, adapter_vars>>

\* the write of append_row: open(csv_path, "a") and one row at the end of the file
WriteRow(p, len) ==
    LET row == RowLine(p, loggers[p].appends + 1, len)
    IN /\ csv_file' = Some((IF IsNone(csv_file) THEN <<>> ELSE csv_file[1]) \o <<row>>)
       /\ loggers' = [loggers EXCEPT ![p].appends = @ + 1]
       /\ appended' = Append(appended, row)
       /\ UNCHANGED <<csv_start, analysis, adapter_vars>>

\* BaseCSVLogger.append_row(data) with data that holds no key of the mapping
AppendRow(p) ==
    /\ loggers[p].pc = "ready" /\ loggers[p].appends < MaxAppends
    /\ WriteRow(p, EmptyRowLen)

\* GEPAResultsLogger.log_experiment: a row with run id and timestamp, appended
LogExperiment(p) ==
    /\ loggers[p].pc = "ready" /\ loggers[p].appends < MaxAppends
    /\ WriteRow(p, ExperimentRowLen)

LedgerNext ==
    \/ \E p \in Processes : EnsureCsvExists(p)
    \/ \E p \in Processes : WriteHeadersOpen(p)
    \/ \E p \in Processes : WriteHeadersClose(p)
    \/ \E p \in Processes : AppendRow(p)
    \/ \E p \in Processes : LogExperiment(p)

\* the ledger runs on its own: no adapter call is in progress
LedgerInit ==
    /\ InitAdapters /\ adapter = "classifier"
    /\ csv_file \in LedgerFiles
    /\ csv_start = csv_file
    /\ loggers = [p \in Processes |-> NoLogger]
    /\ appended = <<>>

LedgerSpec == LedgerInit /\ [][LedgerNext]_vars

(* ----------------------- dspy_gepa_poc/metrics ------------------------- *)
\* the characters the regex class \w matches, of those the texts are made of
WordChars ==
    { "a", "b", "c", "d", "e", "f", "g", "h", "i", "j", "k", "l", "m", "n", "o", "p", "q",
      "r", "s", "t", "u", "v", "w", "x", "y", "z", "A", "B", "J", "N", "S",
      "0", "1", "2", "3", "4", "5", "6", "7", "8", "9", "_" }

compare_exact(expected, actual) == expected = actual

\* re.sub(r"[^\w\s]", "", text), then re.sub(r"\s+", " ", text).strip()
normalize_text(text) ==
    Strip(CollapseWhitespace(SelectSeq(text, LAMBDA c : c \in WordChars \/ IsSpace(c))))

compare_normalized(expected, actual) == normalize_text(expected) = normalize_text(actual)

\* the length of the common run of a from i and b from j, inside a[..ahi] and b[..bhi]
RECURSIVE RunLength(_, _, _, _, _, _)
RunLength(a, b, i, j, ahi, bhi) ==
    IF i <= ahi /\ j <= bhi /\ a[i] = b[j] THEN 1 + RunLength(a, b, i + 1, j + 1, ahi, bhi)
    ELSE 0

\* SequenceMatcher.find_longest_match: the longest block common to a[alo..ahi]
\* and b[blo..bhi]; of the longest, the one that starts earliest in a, and of
\* those the one that starts earliest in b.  The texts are shorter than the 200
\* elements at which the automatic junk heuristic sets in.
find_longest_match(a, b, alo, ahi, blo, bhi) ==
    LET starts == (alo..ahi) \X (blo..bhi)
        size(p) == RunLength(a, b, p[1], p[2], ahi, bhi)
        best == CHOOSE p \in starts :
                    \A q \in starts :
                        \/ size(q) < size(p)
                        \/ size(q) = size(p)
                             /\ (p[1] < q[1] \/ (p[1] = q[1] /\ p[2] <= q[2]))
    IN IF starts = {} THEN <<alo, blo, 0>> ELSE <<best[1], best[2], size(best)>>

\* the sum of the sizes of SequenceMatcher.get_matching_blocks
RECURSIVE MatchingSize(_, _, _, _, _, _)
MatchingSize(a, b, alo, ahi, blo, bhi) ==
    LET m == find_longest_match(a, b, alo, ahi, blo, bhi)
    IN IF m[3] = 0 THEN 0
       ELSE m[3] + MatchingSize(a, b, alo, m[1] - 1, blo, m[2] - 1)
                 + MatchingSize(a, b, m[1] + m[3], ahi, m[2] + m[3], bhi)

\* SequenceMatcher(None, a, b).ratio(): 2.0 * matches / length, 1.0 for two empty texts
ratio(a, b) ==
    IF Len(a) + Len(b) = 0 THEN One
    ELSE Frac(2 * MatchingSize(a, b, 1, Len(a), 1, Len(b)), Len(a) + Len(b))

compare_fuzzy(expected, actual, threshold) ==
    IF compare_normalized(expected, actual) THEN TRUE
    ELSE ~FloatLess(ratio(normalize_text(expected), normalize_text(actual)), threshold)

\* the Python objects the metric returns: a bool (whose number is 1 or 0) or a float
PyBool(b) == [type |-> "bool", value |-> IF b THEN One ELSE Zero]
PyFloat(x) == [type |-> "float", value |-> x]

\* str(getattr(obj, field, "")).strip().lower()
FieldText(obj, field) == Lower(Strip(PyStr(Get(obj, field, StrVal(<<>>)))))

\* is_match of one pass of the loop of dynamic_metric
is_match(match_mode, fuzzy_threshold, expected, actual) ==
    IF match_mode = "normalized" THEN compare_normalized(expected, actual)
    ELSE IF match_mode = "fuzzy" THEN compare_fuzzy(expected, actual, fuzzy_threshold)
    ELSE compare_exact(expected, actual)

\* mutant: partial credit is given whatever normalize says
dynamic_metric_always_partial(eval_fields, normalize, match_mode, fuzzy_threshold, example, pred) ==
    LET hits == SelectSeq(eval_fields, LAMBDA field : is_match(match_mode, fuzzy_threshold, FieldText(example, field), FieldText(pred, field)))
    IN IF Len(hits) = Len(eval_fields) THEN PyBool(TRUE)
       ELSE PyFloat(FloatDiv(FloatOfInt(Len(hits)), FloatOfInt(Len(eval_fields))))

\* the metric create_dynamic_metric returns, applied to example and pred
dynamic_metric(eval_fields, normalize, match_mode, fuzzy_threshold, example, pred) ==
    LET hits == SelectSeq(eval_fields, LAMBDA field : is_match(match_mode, fuzzy_threshold, FieldText(example, field), FieldText(pred, field)))
        matches == Len(hits)
        total == Len(eval_fields)
    IN IF matches = total THEN PyBool(TRUE)
       ELSE IF normalize /\ total > 0
            THEN PyFloat(FloatDiv(FloatOfInt(matches), FloatOfInt(total)))
            ELSE PyBool(FALSE)

\* the default of fuzzy_threshold, 0.85
DefaultFuzzyThreshold == Frac(17, 20)

\* what example and pred hold for one field (None: the attribute is missing)
FieldCases ==
    { [expected |-> Some(StrVal(<<"A", "b">>)), actual |-> Some(StrVal(<<" ", "a", "b", "\n">>))],
      [expected |-> Some(StrVal(<<"a", ".", " ", " ", "b">>)), actual |-> Some(StrVal(<<"a", " ", "b", "!">>))],
      [expected |-> Some(StrVal(<<"a", "b", "c", "d", "e", "f", "g">>)),
       actual |-> Some(StrVal(<<"a", "b", "c", "d", "e", "f", "x">>))],
      [expected |-> Some(StrVal(<<"a", "b", "c", "d", "e", "f">>)),
       actual |-> Some(StrVal(<<"a", "b", "c", "d", "e", "x">>))],
      [expected |-> Some(StrVal(<<"a">>)), actual |-> None],
      [expected |-> Some(NullVal), actual |-> Some(StrVal(<<"n", "o", "n", "e">>))],
      [expected |-> None, actual |-> None] }

\* the example or prediction that holds the given values
Attributes(sentiment, topic) ==
    [f \in (IF IsNone(sentiment) THEN {} ELSE {"sentiment"})
             \cup (IF IsNone(topic) THEN {} ELSE {"topic"}) |->
        IF f = "sentiment" THEN sentiment[1] ELSE topic[1]]

EvalFieldLists ==
    { <<>>, <<"sentiment">>, <<"sentiment", "topic">>, <<"sentiment", "sentiment", "topic">> }
MatchModes == {"exact", "normalized", "fuzzy"}

DynamicMetric ==
    \E eval_fields \in EvalFieldLists, normalize \in BOOLEAN, match_mode \in MatchModes,
       sentiment \in FieldCases, topic \in FieldCases :
        LET example == Attributes(sentiment.expected, topic.expected)
            pred == Attributes(sentiment.actual, topic.actual)
        IN CallAnalysis("dynamic_metric",
                        [eval_fields |-> eval_fields, normalize |-> normalize,
                         match_mode |-> match_mode, example |-> example, pred |-> pred],
                        <<dynamic_metric(eval_fields, normalize, match_mode,
                                         DefaultFuzzyThreshold, example, pred)>>)

\* the analysis package runs on its own: no adapter call is in progress
AnalysisInit == Init /\ adapter = "classifier"

AnalysisNext ==
    \/ GetModelPricing
    \/ CalculateOptimizationCost
    \/ CalculateProductionRoi
    \/ GetStabilityLabel
    \/ DetectAnomalies
    \/ ExtractBudgetFromRows
    \/ RoiCalculatorRun
    \/ LeaderboardRun
    \/ CompareSqlCall
    \/ DynamicMetric

AnalysisSpec == AnalysisInit /\ [][AnalysisNext]_vars

(* ========================= checked properties ========================== *)
\* evaluate() has returned or raised
EvaluateDone == pc \in {"returned", "raised", "reflected"}

\* the transport calls made for example i on behalf of caller
CallsFor(caller, i) ==
    SelectSeq(trace, LAMBDA e : e.op = "call" /\ e.caller = caller /\ e.idx = i)

\* the exception carries one of the moderation markers
MentionsModeration(outcome) ==
    /\ outcome.kind = "raise"
    /\ \E k \in 1..Len(outcome.msg) : outcome.msg[k] = "content_filter" \/ outcome.msg[k] = "jailbreak"

\* the task-model call of example i raised (Classifier, Extractor, SQL)
TaskCallRaised(i) ==
    \E k \in 1..Len(trace) :
        trace[k].op = "call" /\ trace[k].caller = "task" /\ trace[k].idx = i
        /\ trace[k].outcome.kind = "raise"

\* example i has an entry in outputs/scores with score 0.0
ScoredZero(i) == \E p \in 1..Len(scores) : origin[p] = i /\ scores[p] = Zero

(* C1: for the Classifier, Extractor and SQL adapters, evaluate() on a
   non-empty batch in which every task-model call raised ends by raising the
   RuntimeError; it does not return an EvaluationBatch. *)
C1_AllFailedRaises ==
    ( /\ adapter \in DroppingAdapters
      /\ EvaluateDone
      /\ Len(batch) > 0
      /\ \A i \in 1..Len(batch) : TaskCallRaised(i) )
    => pc = "raised"

C1_Witness ==
    /\ adapter \in DroppingAdapters
    /\ pc = "raised"
    /\ Len(batch) >= 2
    /\ \A i \in 1..Len(batch) : TaskCallRaised(i)

(* C2: the EvaluationBatch returned by evaluate() of any adapter has
   len(scores) = len(outputs), and trajectories is a list of that same length
   when capture_traces is true and None otherwise. *)
C2_ParallelLists ==
    pc \in {"returned", "reflected"} =>
        /\ Len(scores) = Len(outputs)
        /\ capture_traces => (~IsNone(trajectories) /\ Len(trajectories[1]) = Len(scores))
        /\ ~capture_traces => IsNone(trajectories)

C2_Witness ==
    /\ pc = "returned"
    /\ capture_traces
    /\ Len(batch) >= 2
    /\ Len(scores) >= 1
    /\ \E k \in 1..Len(trace) : trace[k].op = "call" /\ trace[k].outcome.kind = "raise"

\* 0.0 <= score <= 1.0
InUnitInterval(score) == score.den > 0 /\ 0 <= score.num /\ score.num <= score.den

(* C3: every score of the EvaluationBatch returned by evaluate() lies in
   [0.0, 1.0], whatever number the judge writes on its score line. *)
C3_ScoresInUnitInterval ==
    pc \in {"returned", "reflected"} =>
        \A p \in 1..Len(scores) : InUnitInterval(scores[p])

\* the generation call of RAG example i was blocked or raised: no attempt returned text
GenerationFailed(i) ==
    \A k \in 1..Len(trace) :
        (trace[k].op = "call" /\ trace[k].caller = "gen" /\ trace[k].idx = i)
            => trace[k].outcome.kind = "raise"

(* C4: RAG evaluate() never raises and never drops an example: it returns
   len(batch) scores, entry i belongs to batch example i, and an example whose
   generation was blocked or raised has score 0.0 and an output with an
   'error' key. *)
C4_RagNeverDrops ==
    adapter = "rag" =>
        /\ pc # "raised"
        /\ pc \in {"returned", "reflected"} =>
              /\ Len(scores) = Len(batch)
              /\ \A i \in 1..Len(batch) :
                    /\ origin[i] = i
                    /\ GenerationFailed(i) =>
                          (scores[i] = Zero /\ "error" \in DOMAIN outputs[i])

C4_Witness ==
    /\ adapter = "rag"
    /\ pc = "returned"
    /\ Len(batch) >= 2
    /\ GenerationFailed(1)
    /\ Len(CallsFor("gen", 1)) = 1
    /\ ~GenerationFailed(2)

\* a _call_llm_with_retry invocation has returned or raised
RetryDone == pc \in {"called", "retry_done"}

(* C5: when every transport call of a _call_llm_with_retry invocation with
   max_retries >= 1 raised a moderation exception, the invocation made
   exactly max_retries calls and returned None; it did not raise. *)
C5_ExhaustionReturnsNone ==
    ( /\ RetryDone
      /\ retry.max_retries >= 1
      /\ \A k \in 1..Len(CallsFor(retry.caller, idx)) :
            MentionsModeration(CallsFor(retry.caller, idx)[k].outcome) )
    => /\ retry.result = Returned(None)
       /\ Len(CallsFor(retry.caller, idx)) = retry.max_retries

C5_Witness ==
    /\ pc = "called"
    /\ retry.max_retries >= 3
    /\ Len(CallsFor("direct", idx)) = retry.max_retries
    /\ \E k \in 1..Len(trace) :
          trace[k].op = "call" /\ trace[k].outcome = Raised(<<"jailbreak", " ", "detected">>)
    /\ \A k \in 1..Len(trace) :
          trace[k].op = "call" => MentionsModeration(trace[k].outcome)
    /\ retry.result = Returned(None)

\* event k is a wrapper call that raised an exception without a moderation marker
OtherErrorAt(k) ==
    /\ trace[k].op = "call"
    /\ trace[k].caller \in {"gen", "judge", "direct"}
    /\ trace[k].outcome.kind = "raise"
    /\ ~MentionsModeration(trace[k].outcome)

(* C6: in _call_llm_with_retry an exception without a moderation marker is
   re-raised at the attempt on which it occurs: the invocation makes no
   further call and no sleep after it and ends by raising that exception to
   its caller; on the first attempt and on a retry alike. *)
C6_OtherErrorsPropagate ==
    \A k \in 1..Len(trace) :
        OtherErrorAt(k) =>
            /\ \A j \in (k + 1)..Len(trace) :
                  ~(trace[j].caller = trace[k].caller /\ trace[j].idx = trace[k].idx)
            /\ (k = Len(trace) /\ trace[k].idx = idx) =>
                  (RetryDone /\ retry.result = Raised(trace[k].outcome.msg))

C6_Witness ==
    /\ pc = "called"
    /\ Len(trace) = 3
    /\ trace[1].op = "call" /\ MentionsModeration(trace[1].outcome)
    /\ trace[2].op = "sleep"
    /\ OtherErrorAt(3)
    /\ retry.result.kind = "raise"

\* the reply is not a usable JSON object: it parses to a value that is not an
\* object, or it does not parse and holds no balanced span that parses
NotUsableJson(reply) ==
    \/ ~IsNone(JsonLoads(reply)) /\ JsonLoads(reply)[1].t # "obj"
    \/ IsNone(JsonLoads(reply)) /\ ExtractJsonFromText(reply) = EmptyDict

\* the task model answered example i with a reply that is not a usable JSON object
MalformedReply(i) ==
    \E k \in 1..Len(trace) :
        /\ trace[k].op = "call" /\ trace[k].caller = "task" /\ trace[k].idx = i
        /\ trace[k].outcome.kind = "return"
        /\ NotUsableJson(trace[k].outcome.content[1])

(* C7: in Extractor evaluate(), a reply that is not a usable JSON object
   yields score 0.0 for its example: the example stays in outputs/scores, is
   not dropped and does not make the batch raise. *)
C7_MalformedReplyScoresZero ==
    (adapter = "extractor" /\ EvaluateDone) =>
        \A i \in 1..Len(batch) :
            MalformedReply(i) => (pc # "raised" /\ ScoredZero(i))

(* C8 as stated: in Extractor evaluate(), an example whose task-model call
   raises is represented in the returned scores with value 0.0. *)
C8_FailedCallScoresZero ==
    (adapter = "extractor" /\ pc \in {"returned", "reflected"}) =>
        \A i \in 1..Len(batch) : TaskCallRaised(i) => ScoredZero(i)

(* C8 amended: in Extractor evaluate(), an example whose task-model call
   raises gets no score: it has no entry in the returned outputs and scores. *)
C8_FailedCallDropped ==
    (adapter = "extractor" /\ pc \in {"returned", "reflected"}) =>
        /\ \A i \in 1..Len(batch) :
              TaskCallRaised(i) => ~(\E p \in 1..Len(origin) : origin[p] = i)
        /\ Len(scores) <= Cardinality({i \in 1..Len(batch) : ~TaskCallRaised(i)})

C8_Witness ==
    /\ adapter = "extractor"
    /\ pc = "returned"
    /\ Len(batch) = 2
    /\ TaskCallRaised(1)
    /\ origin = <<2>>

\* str(value).strip().lower()
Normalized(value) == Lower(Strip(PyStr(value)))

\* the expected fields the extraction holds with an equal normalized value
MatchingFields(extraction, expected) ==
    {f \in DOMAIN expected :
        /\ extraction.t = "obj"
        /\ f \in DOMAIN extraction.m
        /\ Normalized(extraction.m[f]) = Normalized(expected[f])}

(* C9: every score of Extractor evaluate() equals k/N, N the number of
   expected fields of the example and k the number of those present in the
   extraction with an equal stripped, lower-cased string value (an omitted
   field is incorrect, also when the expected value is empty); 0.0 when N = 0. *)
C9_ExtractorScoreIsFraction ==
    adapter = "extractor" =>
        \A p \in 1..Len(scores) :
            LET expected == Get(batch[origin[p]], "extracted", <<>>)
                N == Cardinality(DOMAIN expected)
                k == Cardinality(MatchingFields(outputs[p].extracted, expected))
            IN scores[p] = IF N = 0 THEN Zero ELSE Frac(k, N)

C9_Witness ==
    /\ adapter = "extractor"
    /\ pc = "returned"
    /\ Len(scores) = 2
    /\ scores[1] = Frac(1, 2)
    /\ "age" \notin DOMAIN outputs[1].extracted.m
    /\ Get(batch[origin[1]], "extracted", <<>>)["age"] = StrVal(<<>>)
    /\ scores[2] = One

\* the entries of reflective_src of the negative loop
NegativeSources == SelectSeq(reflective_src, LAMBDA r : r.negative)

(* C10: make_reflective_dataset() with 'system_prompt' among the components
   emits one negative record for every example whose score is < 1.0 and for no
   other, in batch order; the Classifier and SQL adapters emit no other
   record. *)
C10_OneNegativePerLowScore ==
    (pc = "reflected" /\ "system_prompt" \in DOMAIN reflective_datasets) =>
        LET records == reflective_datasets["system_prompt"]
            low == {p \in 1..Len(scores) : scores[p].den > 0 /\ scores[p].num < scores[p].den}
        IN /\ Len(records) = Len(reflective_src)
           /\ Len(NegativeSources) = Cardinality(low)
           /\ \A k \in 1..Len(NegativeSources) : NegativeSources[k].pos \in low
           /\ \A k \in 1..Len(NegativeSources), l \in 1..Len(NegativeSources) :
                 k < l => /\ NegativeSources[k].pos < NegativeSources[l].pos
                          /\ origin[NegativeSources[k].pos] < origin[NegativeSources[l].pos]
           /\ \A k \in 1..Len(records) :
                 "Type" \in DOMAIN records[k] =>
                     (records[k].Type = "negative_example" <=> reflective_src[k].negative)
           /\ adapter \in {"classifier", "sql"} => Len(records) = Cardinality(low)

C10_Witness ==
    /\ pc = "reflected"
    /\ adapter \in {"classifier", "sql"}
    /\ "system_prompt" \in DOMAIN reflective_datasets
    /\ Len(scores) >= 2
    /\ scores[1] = One
    /\ scores[2] = Zero
    /\ Len(reflective_datasets["system_prompt"]) = 1

\* positions of the returned scores that equal 1.0, in batch order
PerfectPositions == SelectSeq([i \in 1..Len(scores) |-> i], LAMBDA i : scores[i] = One)

\* what entry p of outputs holds as the generated answer or extraction
GeneratedOf(p) ==
    IF adapter = "rag" THEN SanitizeForReflection(outputs[p].generated_answer)
    ELSE outputs[p].extracted

\* the generated answer or extraction a reflective record of the Extractor or
\* RAG adapter shows
RecordGenerated(record) ==
    IF adapter = "rag" THEN record["Generated Outputs"].respuesta_generada
    ELSE record["Generated Outputs"].extracted_fields

(* C11: for the Extractor and RAG adapters, make_reflective_dataset() emits
   exactly min(max_positive_examples, number of scores equal to 1.0) positive
   records; they are built from the first such examples in batch order, every
   positive record comes after all negative records, and with
   max_positive_examples = 0 there is no positive record. *)
C11_PositivesCapped ==
    ( /\ pc = "reflected"
      /\ adapter \in {"extractor", "rag"}
      /\ "system_prompt" \in DOMAIN reflective_datasets )
    => LET records == reflective_datasets["system_prompt"]
           positives == {k \in 1..Len(records) : records[k].Type = "positive_example"}
           n == Min(max_positive_examples, Len(PerfectPositions))
       IN /\ Cardinality(positives) = n
          /\ positives = (Len(records) - n + 1)..Len(records)
          /\ \A k \in 1..n :
                LET j == Len(records) - n + k
                IN /\ reflective_src[j].pos = PerfectPositions[k]
                   /\ RecordGenerated(records[j]) = GeneratedOf(PerfectPositions[k])
          /\ max_positive_examples = 0 => positives = {}

C11_Witness ==
    /\ pc = "reflected"
    /\ adapter \in {"extractor", "rag"}
    /\ "system_prompt" \in DOMAIN reflective_datasets
    /\ max_positive_examples = 1
    /\ Len(scores) = 2
    /\ scores[1].num < scores[1].den
    /\ scores[2] = One
    /\ Len(reflective_datasets["system_prompt"]) = 2
    /\ reflective_datasets["system_prompt"][2].Type = "positive_example"

\* the text values of a RAG reflective record other than its feedback
RagRecordTexts(record) ==
    { record.Inputs.pregunta, record.Inputs.contexto,
      record["Generated Outputs"].respuesta_generada,
      record["Ideal Output (Ground Truth)"] }

(* C12 as stated: every text value of a RAG reflective record (question,
   context, generated answer, ground truth and judge feedback), in negative
   and positive records alike, is at most 500 characters long. *)
C12_RecordTextsAtMost500 ==
    ( /\ pc = "reflected"
      /\ adapter = "rag"
      /\ "system_prompt" \in DOMAIN reflective_datasets )
    => \A k \in 1..Len(reflective_datasets["system_prompt"]) :
          LET record == reflective_datasets["system_prompt"][k]
          IN \A text \in RagRecordTexts(record) \cup {record["Feedback (del Juez)"]} :
                TextLen(text) <= 500

(* C12 amended: in every RAG reflective record the question, context,
   generated answer and ground truth are at most 500 characters long, whatever
   the length of the source text and whatever RAG_CONTEXT_MAX_LENGTH holds; the
   feedback of a negative record is at most 500 characters long, and the
   feedback of a positive record is the prefix 'EJEMPLO EXITOSO: ' followed by
   at most 500 characters. *)
C12_SanitizedTextsAtMost500 ==
    ( /\ pc = "reflected"
      /\ adapter = "rag"
      /\ "system_prompt" \in DOMAIN reflective_datasets )
    => \A k \in 1..Len(reflective_datasets["system_prompt"]) :
          LET record == reflective_datasets["system_prompt"][k]
              feedback == record["Feedback (del Juez)"]
          IN /\ \A text \in RagRecordTexts(record) : TextLen(text) <= 500
             /\ record.Type = "negative_example" => TextLen(feedback) <= 500
             /\ record.Type = "positive_example" =>
                   /\ Head(feedback) = "EJEMPLO EXITOSO: "
                   /\ TextLen(Tail(feedback)) <= 500

C12_Witness ==
    /\ pc = "reflected"
    /\ adapter = "rag"
    /\ "system_prompt" \in DOMAIN reflective_datasets
    /\ Len(reflective_datasets["system_prompt"]) = 2
    /\ LET negative == reflective_datasets["system_prompt"][1]
           positive == reflective_datasets["system_prompt"][2]
       IN /\ negative.Type = "negative_example"
          /\ TextLen(negative["Feedback (del Juez)"]) = 500
          /\ positive.Type = "positive_example"
          /\ TextLen(positive["Feedback (del Juez)"]) > 500
          /\ TextLen(positive.Inputs.contexto) = 500

\* the last call into shared/analysis was a call of fn
Called(fn) == analysis.fn = fn

(* C13: calculate_optimization_cost returns task_calls = (max_calls + 1) *
   val_size (the validation set size given, or the one looked up for the case),
   reflection_calls = max_calls // 2 and total_cost = task_cost +
   reflection_cost; a call repeated with identical arguments returns an
   identical breakdown. *)
C13_OptimizationCostBreakdown ==
    /\ [](Called("calculate_optimization_cost") =>
            LET a == analysis.args
                r == analysis.result
                size == IF IsNone(a.val_size)
                        THEN Get(DEFAULT_VAL_SIZES, a.case_name, FALLBACK_VAL_SIZE)
                        ELSE a.val_size[1]
            IN /\ r.task_calls = (a.max_calls + 1) * size
               /\ r.reflection_calls = a.max_calls \div 2
               /\ r.total_cost = r.task_cost + r.reflection_cost)
    /\ [][(/\ Called("calculate_optimization_cost")
           /\ analysis'.fn = "calculate_optimization_cost"
           /\ analysis'.args = analysis.args)
          => analysis'.result = analysis.result]_vars

C13_Witness ==
    /\ Called("calculate_optimization_cost")
    /\ analysis.seq = 2
    /\ analysis.args.max_calls = 5
    /\ analysis.args.val_size = Some(3)
    /\ analysis.result.task_calls = 18
    /\ analysis.result.reflection_calls = 2
    /\ analysis.result.task_cost > 0
    /\ analysis.result.reflection_cost > 0

\* a provider prefix: the part of an identifier up to and including its '/'
ProviderPrefixes == {"azure/", "Azure/", "AZURE/", "openai/", "OpenAI/"}

\* the identifier without its provider prefix
WithoutProvider(model_name) ==
    IF model_name # <<>> /\ Head(model_name) \in ProviderPrefixes
    THEN Tail(model_name) ELSE model_name

(* C14: get_model_pricing removes the provider prefix of the identifier, for
   any provider, and looks the rest up case-insensitively; an identifier that
   is not in the table gets the gpt-4o-mini entry. *)
C14_PricingIgnoresProvider ==
    Called("get_model_pricing") =>
        LET a == analysis.args
            table == IF IsNone(a.pricing) \/ DOMAIN a.pricing[1] = {} THEN DEFAULT_PRICING
                     ELSE a.pricing[1]
            cheapest == Get(table, <<"gpt-4o-mini">>, DEFAULT_PRICING[<<"gpt-4o-mini">>])
        IN analysis.result = Get(table, Lower(WithoutProvider(a.model_name)), cheapest)

\* the expensive-model price minus the cheap-model price of one call at the
\* nominal token counts of the case
PriceDelta(a) ==
    LET tokens == Get(DEFAULT_TOKEN_ESTIMATES, a.case_name, DEFAULT_TOKEN_ESTIMATES["default"])
    IN cost_per_call(get_model_pricing(a.expensive_model, None), tokens.input, tokens.output)
         - cost_per_call(get_model_pricing(a.cheap_model, None), tokens.input, tokens.output)

(* C15: calculate_production_roi returns breakeven_calls = floor(optimization_cost
   / d) when the per-call price difference d at nominal token counts is
   positive, breakeven_calls = 0 when d <= 0, and roi_percentage = 0 when
   optimization_cost = 0. *)
C15_BreakevenIsFloor ==
    Called("calculate_production_roi") =>
        LET a == analysis.args
            r == analysis.result
            d == PriceDelta(a)
        IN /\ d > 0 => r.breakeven_calls = a.optimization_cost \div d
           /\ d <= 0 => r.breakeven_calls = 0
           /\ a.optimization_cost = 0 => r.roi_percentage = Zero

C15_Witness ==
    /\ Called("calculate_production_roi")
    /\ PriceDelta(analysis.args) = 258500
    /\ analysis.args.optimization_cost = 100000000
    /\ analysis.result.breakeven_calls = 386
    /\ analysis.result.roi_percentage # Zero

(* C16: for a model pair with a positive per-call price difference,
   calculate_production_roi called with production_calls >= breakeven_calls + 1
   returns savings >= 0. *)
C16_BreakevenOffsetsCost ==
    ( /\ Called("calculate_production_roi")
      /\ PriceDelta(analysis.args) > 0
      /\ analysis.args.production_calls >= analysis.result.breakeven_calls + 1 )
    => analysis.result.savings >= 0

\* the labels of get_stability_label from best to worst
LabelRank(label) ==
    CASE label = "Alta" -> 0
      [] label = "Buena" -> 1
      [] label = "Atencion" -> 2
      [] label = "Inestable" -> 3

(* C18: get_stability_label(std, scale) with scale > 0 returns 'Alta' iff
   std/scale < 0.05, 'Buena' iff 0.05 <= std/scale < 0.10, 'Atencion' iff
   0.10 <= std/scale < 0.15 and 'Inestable' iff std/scale >= 0.15; between two
   calls with the same scale the label does not improve when std does not
   decrease. *)
C18_StabilityLabelThresholds ==
    /\ [](( /\ Called("get_stability_label")
            /\ FloatLess(Zero, analysis.args.scale) ) =>
            LET n == FloatDiv(analysis.args.std, analysis.args.scale)
                label == analysis.result[1]
            IN /\ label = "Alta" <=> FloatLess(n, Frac(1, 20))
               /\ label = "Buena" <=> (~FloatLess(n, Frac(1, 20)) /\ FloatLess(n, Frac(1, 10)))
               /\ label = "Atencion" <=> (~FloatLess(n, Frac(1, 10)) /\ FloatLess(n, Frac(3, 20)))
               /\ label = "Inestable" <=> ~FloatLess(n, Frac(3, 20)))
    /\ [][( /\ Called("get_stability_label")
            /\ analysis'.fn = "get_stability_label"
            /\ analysis'.args.scale = analysis.args.scale
            /\ ~FloatLess(analysis'.args.std, analysis.args.std) )
          => LabelRank(analysis'.result[1]) >= LabelRank(analysis.result[1])]_vars

C18_Witness ==
    /\ Called("get_stability_label")
    /\ analysis.seq = 2
    /\ analysis.args.std = FloatOfInt(15)
    /\ analysis.args.scale = FloatOfInt(100)
    /\ analysis.result[1] = "Inestable"

\* the reasons that apply to a row: optimized < baseline, robustness <
\* baseline, robustness exactly 0% or 100% of the scale detected for the row
ReasonsThatApply(row) ==
    LET base == parse_float(Get(row, "Baseline Score", "0"))
        opt == parse_float(Get(row, "Optimizado Score", "0"))
        rob == parse_float(Get(row, "Robustez Score", "0"))
        scale == detect_scale(<<base, opt, rob>>)
    IN (IF FloatLess(opt, base) THEN {"Opt < Base"} ELSE {})
         \cup (IF FloatLess(rob, base) THEN {"Rob < Base"} ELSE {})
         \cup (IF FloatEq(rob, Zero) \/ FloatEq(rob, scale) THEN {"Extremo"} ELSE {})

\* the text holds the word
Mentions(text, word) == \E k \in 1..Len(text) : text[k] = word

(* C19: detect_anomalies yields one record, in row order, for every row with
   optimized < baseline, or robustness < baseline, or robustness exactly 0% or
   100% of the scale detected for that row, and none for any other row; the
   reason of a record names every reason that applies to its row. *)
C19_AnomalyFlags ==
    Called("detect_anomalies") =>
        LET data == analysis.args.data
            flagged == SelectSeq([i \in 1..Len(data) |-> i],
                                 LAMBDA i : ReasonsThatApply(data[i]) # {})
        IN /\ Len(analysis.result) = Len(flagged)
           /\ \A k \in 1..Len(flagged) :
                 \A reason \in ReasonsThatApply(data[flagged[k]]) :
                     Mentions(analysis.result[k].reason, reason)

\* the integers in the Budget cells of the rows, and those after 'Budget:' in
\* their Notas cells
BudgetColumnValues(rows) ==
    {IntOf(Strip(Get(rows[k], "Budget", <<>>)))[1] :
        k \in {j \in 1..Len(rows) : ~IsNone(IntOf(Strip(Get(rows[j], "Budget", <<>>))))}}
NotasValues(rows) ==
    {parse_notas_budget(Get(rows[k], "Notas", <<>>))[1] :
        k \in {j \in 1..Len(rows) : ~IsNone(parse_notas_budget(Get(rows[j], "Notas", <<>>)))}}

(* C20: extract_budget_from_rows returns a value of the Budget column whenever
   a row of the group has an integer in its Budget cell; a 'Budget: <int>' of a
   Notas cell only when no row has one; the fallback only when no row has
   either. *)
C20_BudgetColumnPreferred ==
    Called("extract_budget_from_rows") =>
        LET rows == analysis.args.rows
        IN /\ BudgetColumnValues(rows) # {} => analysis.result[1] \in BudgetColumnValues(rows)
           /\ (BudgetColumnValues(rows) = {} /\ NotasValues(rows) # {})
                 => analysis.result[1] \in NotasValues(rows)
           /\ (BudgetColumnValues(rows) = {} /\ NotasValues(rows) = {})
                 => analysis.result[1] = analysis.args.fallback

\* the mean robustness score of the rows is strictly greater than their mean
\* baseline score
GroupImproved(rows) ==
    FloatLess(mean(Column(rows, "Baseline Score")), mean(Column(rows, "Robustez Score")))

(* C17: in the ROI report and in the leaderboard, a group whose mean robustness
   score is not strictly greater than its mean baseline score has no ROI
   computed: roi_data and breakeven (ROI report), savings_1k and breakeven
   (leaderboard) are None. *)
C17_RoiOnlyWhenImproved ==
    /\ Called("roi_calculator.run") =>
         \A g \in 1..Len(analysis.result) :
            LET entry == analysis.result[g]
                rows == GroupRows(analysis.args.data, roi_keys(analysis.args.data),
                                  <<entry.case_name, entry.task_model, entry.reflection_model>>)
            IN ~GroupImproved(rows) => IsNone(entry.roi_data) /\ IsNone(entry.breakeven)
    /\ Called("leaderboard.run") =>
         \A g \in 1..Len(analysis.result.grouped_data) :
            LET entry == analysis.result.grouped_data[g]
                rows == GroupRows(analysis.args.data, leaderboard_keys(analysis.args.data),
                                  <<entry.case, entry.task, entry.reflect>>)
            IN ~GroupImproved(rows) => IsNone(entry.savings_1k) /\ IsNone(entry.breakeven)

\* RAG example i is finished: its entry was appended and the loop moved on
RagExampleFinished(i) == i < idx \/ (EvaluateDone /\ i <= Len(batch))

\* the positions of trace at which a call for example i was made on behalf of caller
CallPositions(caller, i) ==
    {k \in 1..Len(trace) : trace[k].op = "call" /\ trace[k].caller = caller /\ trace[k].idx = i}

(* C24: in RAG evaluate() every judge call of an example comes after a
   generation call of the same example that returned text; an example whose
   generation was blocked or raised gets no judge call and score 0.0, and the
   loop goes on: every finished example had its generation call, the calls of
   an example come after those of the examples before it, and evaluate()
   ends only when every example of the batch is finished. *)
C24_JudgeOnlyAfterGeneration ==
    adapter = "rag" =>
        /\ \A i \in 1..Len(batch) :
              /\ \A k \in CallPositions("judge", i) :
                    \E j \in CallPositions("gen", i) :
                        j < k /\ trace[j].outcome.kind = "return"
              /\ RagExampleFinished(i) =>
                    /\ CallPositions("gen", i) # {}
                    /\ origin[i] = i
                    /\ GenerationFailed(i) =>
                          (CallPositions("judge", i) = {} /\ scores[i] = Zero)
        /\ \A k \in 1..Len(trace) : \A j \in 1..(k - 1) : trace[j].idx <= trace[k].idx
        /\ EvaluateDone => idx = Len(batch) + 1

C24_Witness ==
    /\ adapter = "rag"
    /\ pc = "returned"
    /\ Len(batch) = 2
    /\ GenerationFailed(1)
    /\ Len(CallsFor("gen", 1)) = DefaultMaxRetries
    /\ CallPositions("judge", 1) = {}
    /\ CallPositions("judge", 2) # {}
    /\ scores[1] = Zero

\* the batch positions whose task-model call returned, in batch order
ReturnedPositions ==
    SelectSeq([i \in 1..Len(trace) |-> i], LAMBDA i : trace[i].outcome.kind = "return")

(* C25: Classifier, Extractor and SQL evaluate() make exactly one task-model
   call per batch example, in batch order and without retry or sleep; a call
   that raises does not stop the loop, which ends only after the last example;
   the entries of scores are those of the examples whose call did not raise,
   in batch order. *)
C25_OneCallPerExample ==
    (adapter \in DroppingAdapters /\ pc # "idle") =>
        /\ Len(trace) = idx - 1
        /\ \A k \in 1..Len(trace) :
              trace[k].op = "call" /\ trace[k].caller = "task" /\ trace[k].idx = k
        /\ EvaluateDone => idx = Len(batch) + 1
        /\ Len(scores) = Len(origin)
        /\ origin = ReturnedPositions

\* events j and k of the trace belong to the same _call_llm_with_retry invocation
SameInvocation(j, k) == trace[j].caller = trace[k].caller /\ trace[j].idx = trace[k].idx

\* the sleeps of the invocation made for example i on behalf of caller
SleepsFor(caller, i) ==
    SelectSeq(trace, LAMBDA e : e.op = "sleep" /\ e.caller = caller /\ e.idx = i)

\* the invocation ended by returning the text of a transport call
RetrySucceeded == RetryDone /\ retry.result.kind = "return" /\ ~IsNone(retry.result.content)

(* C26: in _call_llm_with_retry every sleep lasts 1 second, directly follows
   a moderation-rejected attempt of the same invocation and is directly
   followed by the next attempt, and two attempts of one invocation are never
   adjacent; so no sleep follows the final attempt.  When the invocation
   returns a text after k attempts, k <= max_retries, attempts 1..k-1 were
   moderation rejections, the text is that of attempt k and exactly k-1 sleeps
   were made. *)
C26_SleepBetweenAttemptsOnly ==
    /\ \A k \in 1..Len(trace) :
          /\ trace[k].op = "sleep" =>
                /\ trace[k].seconds = 1
                /\ k > 1 /\ trace[k - 1].op = "call" /\ SameInvocation(k - 1, k)
                /\ MentionsModeration(trace[k - 1].outcome)
                /\ IF k < Len(trace)
                   THEN trace[k + 1].op = "call" /\ SameInvocation(k, k + 1)
                   ELSE pc = "retry" /\ retry.attempt < retry.max_retries
          /\ (trace[k].op = "call" /\ k < Len(trace) /\ trace[k + 1].op = "call")
                => ~SameInvocation(k, k + 1)
    /\ RetrySucceeded =>
          LET calls == CallsFor(retry.caller, idx)
              k == Len(calls)
          IN /\ k >= 1 /\ k <= retry.max_retries
             /\ calls[k].outcome = retry.result
             /\ \A j \in 1..(k - 1) : MentionsModeration(calls[j].outcome)
             /\ Len(SleepsFor(retry.caller, idx)) = k - 1

C26_Witness ==
    /\ pc = "called" /\ RetrySucceeded
    /\ retry.max_retries = 3
    /\ Len(CallsFor("direct", idx)) = 3
    /\ Len(SleepsFor("direct", idx)) = 2
    /\ trace[2].op = "sleep" /\ trace[4].op = "sleep"

\* evaluate() has returned an EvaluationBatch
EvaluateReturned == pc \in {"returned", "reflected"}

(* C28: Classifier, Extractor and SQL evaluate() never return an
   EvaluationBatch with zero scores: a call either returns at least one score
   or raises RuntimeError, and it raises on an empty batch although no
   transport call was made; RAG evaluate() never raises and on an empty batch
   returns an EvaluationBatch with zero scores. *)
C28_NoEmptyEvaluationBatch ==
    /\ (adapter \in DroppingAdapters /\ EvaluateReturned) => Len(scores) >= 1
    /\ pc = "raised" => (adapter \in DroppingAdapters /\ scores = <<>> /\ outputs = <<>>)
    /\ (adapter \in DroppingAdapters /\ EvaluateDone /\ batch = <<>>) =>
          (pc = "raised" /\ trace = <<>>)
    /\ (adapter = "rag" /\ EvaluateDone) => EvaluateReturned
    /\ (adapter = "rag" /\ EvaluateDone /\ batch = <<>>) =>
          (scores = <<>> /\ outputs = <<>> /\ trace = <<>>)

C28_Witness ==
    /\ adapter = "sql" /\ pc = "raised"
    /\ batch = <<>> /\ trace = <<>> /\ scores = <<>>

\* the feedback text names field f as a correct field
ListsField(feedback, f) ==
    \E k \in 1..(Len(feedback) - 2) :
        feedback[k] = "'" /\ feedback[k + 1] = f /\ feedback[k + 2] = "': '"

\* the names of the expected fields of batch example i
ExpectedFieldNames(i) ==
    IF "extracted" \in DOMAIN batch[i] THEN DOMAIN batch[i].extracted ELSE {}

(* C27: every positive record that Extractor make_reflective_dataset()
   builds lists in its feedback each expected field of the perfect-score
   example it was built from, with trajectories and with outputs only, and
   also when a value matched only up to case and surrounding whitespace. *)
C27_PositiveFeedbackListsFields ==
    ( /\ pc = "reflected"
      /\ adapter = "extractor"
      /\ "system_prompt" \in DOMAIN reflective_datasets )
    => LET records == reflective_datasets["system_prompt"]
       IN \A j \in 1..Len(records) :
             records[j].Type = "positive_example" =>
                \A f \in ExpectedFieldNames(origin[reflective_src[j].pos]) :
                    ListsField(records[j].Feedback, f)

\* the three fields of a reflective record that the adapters share
RecordCore(record) ==
    <<record.Inputs, record["Generated Outputs"], record.Feedback>>

(* C30: for Classifier, Extractor and SQL, the negative record that
   make_reflective_dataset() builds from the trajectory of an evaluated
   example (capture_traces=True) has the same Inputs, Generated Outputs and
   Feedback as the record built from the entry of outputs for that example. *)
C30_NegativeRecordSameFromEitherSource ==
    ( /\ pc = "reflected"
      /\ adapter \in DroppingAdapters
      /\ capture_traces
      /\ "system_prompt" \in DOMAIN reflective_datasets )
    => LET records == reflective_datasets["system_prompt"]
       IN \A j \in 1..Len(records) :
             reflective_src[j].negative =>
                RecordCore(records[j])
                  = RecordCore(NegativeRecord(adapter, outputs[reflective_src[j].pos], 0))

\* s without one trailing semicolon
DropTrailingSemicolon(s) ==
    IF s # <<>> /\ s[Len(s)] = ";" THEN SubSeq(s, 1, Len(s) - 1) ELSE s

\* the maximal runs of non-whitespace characters of s, in order
RECURSIVE SqlTokens(_)
SqlTokens(s) ==
    LET t == LStrip(s)
        n == IF \E k \in 1..Len(t) : IsSpace(t[k])
             THEN (CHOOSE k \in 1..Len(t) : IsSpace(t[k]) /\ \A j \in 1..(k - 1) : ~IsSpace(t[j])) - 1
             ELSE Len(t)
    IN IF t = <<>> THEN <<>>
       ELSE <<SubSeq(t, 1, n)>> \o SqlTokens(SubSeq(t, n + 1, Len(t)))

\* the lower-cased tokens of a statement, its trailing semicolon and the
\* whitespace around it left out
LoweredTokens(s) == SqlTokens(Lower(Strip(DropTrailingSemicolon(Strip(s)))))

(* C23: _compare_sql returns True for two SQL strings that differ only in
   letter case, in the presence of a trailing semicolon, in leading or
   trailing whitespace and in the length of whitespace runs, that is, strings
   with the same lower-cased tokens; it returns False when those token
   sequences differ; the relation is symmetric and transitive. *)
C23_CompareSqlEquivalence ==
    Called("_compare_sql") =>
        LET sql1 == analysis.args.sql1
            sql2 == analysis.args.sql2
        IN /\ analysis.result[1] = (LoweredTokens(sql1) = LoweredTokens(sql2))
           /\ analysis.result[1] = CompareSql(sql2, sql1)
           /\ \A sql3 \in SqlStrings :
                 (analysis.result[1] /\ CompareSql(sql2, sql3)) => CompareSql(sql1, sql3)

\* the positions of eval_fields whose field matches under the match mode
MatchingPositions(args) ==
    {i \in 1..Len(args.eval_fields) :
        is_match(args.match_mode, DefaultFuzzyThreshold,
                 FieldText(args.example, args.eval_fields[i]),
                 FieldText(args.pred, args.eval_fields[i]))}

(* C22: the metric built by create_dynamic_metric over N >= 1 eval_fields of
   which exactly k match returns a value equal to 1.0 when k = N; when k < N
   it returns k/N if normalize is true and a value equal to 0.0 if normalize
   is false; in the exact, the normalized and the fuzzy match mode. *)
C22_FieldMatchPartialCredit ==
    (Called("dynamic_metric") /\ Len(analysis.args.eval_fields) >= 1) =>
        LET N == Len(analysis.args.eval_fields)
            k == Cardinality(MatchingPositions(analysis.args))
            returned == analysis.result[1].value
        IN /\ k = N => FloatEq(returned, One)
           /\ (k < N /\ analysis.args.normalize) => FloatEq(returned, Frac(k, N))
           /\ (k < N /\ ~analysis.args.normalize) => FloatEq(returned, Zero)

C22_Witness ==
    /\ Called("dynamic_metric")
    /\ analysis.args.match_mode = "fuzzy" /\ analysis.args.normalize
    /\ Len(analysis.args.eval_fields) = 3
    /\ Cardinality(MatchingPositions(analysis.args)) = 2
    /\ analysis.result[1] = PyFloat(Frac(2, 3))

\* the processes that have constructed a logger
Writers == {p \in Processes : loggers[p].constructions > 0}

\* no logger is inside its constructor
BetweenCalls == \A p \in Processes : loggers[p].pc \in {"none", "ready"}

\* the rows the ledger file held before the first logger was constructed
RowsAtStart == IF IsNone(csv_start) THEN <<>> ELSE Tail(csv_start[1])

(* C21: while a single process writes the ledger, after any sequence of
   logger constructions and append_row or log_experiment calls the file is the
   header line followed by the rows it held at the start and by every appended
   row in call order: each call added one row at the end and left the earlier
   rows as they were, and constructing a logger on an existing file did not
   rewrite it. *)
C21_LedgerAppendOnly ==
    (Cardinality(Writers) = 1 /\ BetweenCalls) =>
        /\ ~IsNone(csv_file)
        /\ csv_file[1] = <<HeaderLine>> \o RowsAtStart \o appended
        /\ \A p \in Writers : Len(appended) = loggers[p].appends

C21_Witness ==
    /\ Writers = {1} /\ BetweenCalls
    /\ Len(RowsAtStart) = 2
    /\ loggers[1].constructions = 2
    /\ Len(appended) = 2
    /\ Len(csv_file[1]) = 5

\* the lines of the ledger file
Lines == IF IsNone(csv_file) THEN <<>> ELSE csv_file[1]

\* both processes have constructed one logger and appended one row
BothAppended ==
    /\ BetweenCalls
    /\ \A p \in Processes : loggers[p].constructions >= 1 /\ loggers[p].appends >= 1

(* C29: when two processes each construct a ledger logger and then append
   rows, starting from a missing file, no row that was appended is ever lost,
   and once both have appended the file holds exactly one header line and
   every appended row. *)
C29_ConcurrentLedgerKeepsRows ==
    IsNone(csv_start) =>
        /\ \A k \in 1..Len(appended) : \E j \in 1..Len(Lines) : Lines[j] = appended[k]
        /\ BothAppended =>
              /\ Cardinality({j \in 1..Len(Lines) : Lines[j].kind = "header"}) = 1
              /\ Lines = <<HeaderLine>> \o appended
====
